---- MODULE Spec2Model ----
(***************************************************************************)
(* Course-Mapper: content classification, tree indexing, Ultra page merge, *)
(* path resolution, embedded-markup extraction and the per-course loop of  *)
(* main, modelled from cm_shared.py, course_map.py, export_txt.py and      *)
(* export_html.py.                                                         *)
(*                                                                         *)
(* Encoding of Python values.  A str is a TLA+ string.  A dict key that is *)
(* missing is ABSENT, a JSON null is NULL, JSON true/false are JTRUE and   *)
(* JFALSE: four strings no input string equals.  A content record is a     *)
(* record with the fields the code reads; "position" is [int, v] because   *)
(* the code only asks isinstance(position, int).                           *)
(***************************************************************************)
EXTENDS Integers, Sequences, FiniteSets, TLC

ABSENT == "<absent>"
NULL   == "<null>"
JTRUE  == "<true>"
JFALSE == "<false>"

\* d.get(k): a missing key reads as None
Get(v) == IF v = ABSENT THEN NULL ELSE v
\* d.get(k, default): only a missing key takes the default, a null stays None
GetDefault(v, default) == IF v = ABSENT THEN default ELSE v
\* Python truthiness of a str / None / bool value
Truthy(v) == v \notin {ABSENT, NULL, JFALSE, ""}
\* x or default
OrElse(v, default) == IF Truthy(v) THEN v ELSE default

\* the one element of a singleton: { e : x \in {v} } computes v once for all of e
Only(S) == CHOOSE x \in S : TRUE

(***************************************************************************)
(* Strings, character by character.                                        *)
(***************************************************************************)
\* s[i-1:i]: the character at position i, "" outside the string
Char(s, i) == IF 1 <= i /\ i <= Len(s) THEN SubSeq(s, i, i) ELSE ""
Drop(s, n) == SubSeq(s, n + 1, Len(s))
Take(s, n) == SubSeq(s, 1, n)

\* str.startswith
StartsWith(s, p) == Len(p) <= Len(s) /\ Take(s, Len(p)) = p
\* str.startswith at an offset: s[i:].startswith(p), i counted from 1
MatchAt(s, i, p) == i >= 1 /\ i + Len(p) - 1 <= Len(s) /\ SubSeq(s, i, i + Len(p) - 1) = p
\* sub in s
Contains(s, sub) == \E i \in 1..(Len(s) - Len(sub) + 1) : SubSeq(s, i, i + Len(sub) - 1) = sub

UpperLetters == "ABCDEFGHIJKLMNOPQRSTUVWXYZ"
LowerLetters == "abcdefghijklmnopqrstuvwxyz"
Digits == "0123456789"
IndexIn(alphabet, c) ==
  IF \E i \in 1..Len(alphabet) : Char(alphabet, i) = c
  THEN CHOOSE i \in 1..Len(alphabet) : Char(alphabet, i) = c
  ELSE 0
\* the lower-case letter of each upper-case letter
LowerTable == [c \in {Char(UpperLetters, i) : i \in 1..Len(UpperLetters)} |->
                 Char(LowerLetters, IndexIn(UpperLetters, c))]
LowerChar(c) == IF c \in DOMAIN LowerTable THEN LowerTable[c] ELSE c
RECURSIVE LowerRange(_, _, _)
\* s[lo..hi] lowered, by halves
LowerRange(s, lo, hi) ==
  IF lo > hi THEN ""
  ELSE IF lo = hi THEN LowerChar(Char(s, lo))
  ELSE Only({LowerRange(s, lo, mid) \o LowerRange(s, mid + 1, hi) : mid \in {(lo + hi) \div 2}})
\* str.lower()
Lower(s) == Only({LowerRange(v, 1, Len(v)) : v \in {s}})

IsSpace(c) == c \in {" ", "\t", "\n", "\r"}
RECURSIVE LStrip(_)
LStrip(s) == IF s # "" /\ IsSpace(Char(s, 1)) THEN LStrip(Drop(s, 1)) ELSE s
RECURSIVE RStrip(_)
RStrip(s) == IF s # "" /\ IsSpace(Char(s, Len(s))) THEN RStrip(Take(s, Len(s) - 1)) ELSE s
\* str.strip
Strip(s) == RStrip(LStrip(s))

\* Code points of the printable ASCII characters, for str comparison: 32..95 and
\* 97..126 (the grave accent, 96, occurs in no input)
AsciiLow  == " !\"#$%&'()*+,-./0123456789:;<=>?@ABCDEFGHIJKLMNOPQRSTUVWXYZ[\\]^_"
AsciiHigh == "abcdefghijklmnopqrstuvwxyz{|}~"
CodePoint(c) ==
  IF c = "\t" THEN 9 ELSE IF c = "\n" THEN 10 ELSE IF c = "\r" THEN 13
  ELSE IF IndexIn(AsciiLow, c) > 0 THEN 31 + IndexIn(AsciiLow, c)
  ELSE 96 + IndexIn(AsciiHigh, c)
RECURSIVE StrLess(_, _)
\* a < b on str: lexicographic by code point
StrLess(a, b) ==
  IF b = "" THEN FALSE
  ELSE IF a = "" THEN TRUE
  ELSE IF Char(a, 1) = Char(b, 1) THEN StrLess(Drop(a, 1), Drop(b, 1))
  ELSE CodePoint(Char(a, 1)) < CodePoint(Char(b, 1))

(***************************************************************************)
(* Content handler helpers (cm_shared.py).                                 *)
(***************************************************************************)
EmptyFile == [kind |-> "absent", mimeType |-> ABSENT]
EmptyHandler == [kind |-> "dict", id |-> ABSENT, isBbPage |-> ABSENT, url |-> ABSENT,
                 launchUrl |-> ABSENT, file |-> EmptyFile]
\* (item.get("contentHandler") or {}): an absent, null or empty handler reads as {}
HandlerOrEmpty(item) == IF item.contentHandler.kind = "dict" THEN item.contentHandler ELSE EmptyHandler

handler_id(item) == Lower(OrElse(Get(HandlerOrEmpty(item).id), ""))
ch_bool(item, key) == Truthy(Get(HandlerOrEmpty(item)[key]))
is_external_link(item) == handler_id(item) = "resource/x-bb-externallink"
external_link_url(item) ==
  LET ch == HandlerOrEmpty(item)
  IN Strip(OrElse(Get(ch.url), OrElse(Get(ch.launchUrl), "")))
\* is_ultra_page without the isBbPage test
is_ultra_page_AnyFolder(item) == Lower(OrElse(Get(HandlerOrEmpty(item).id), "")) = "resource/x-bb-folder"

is_ultra_page(item) == handler_id(item) = "resource/x-bb-folder" /\ ch_bool(item, "isBbPage")
is_document_handler(item) == StartsWith(handler_id(item), "resource/x-bb-document")

(***************************************************************************)
(* MIME family and type classification (cm_shared.py).                     *)
(***************************************************************************)
OPENXML_MAP ==
  [m \in {"application/vnd.openxmlformats-officedocument.wordprocessingml.document",
          "application/vnd.openxmlformats-officedocument.spreadsheetml.sheet",
          "application/vnd.openxmlformats-officedocument.presentationml.presentation"} |->
     IF m = "application/vnd.openxmlformats-officedocument.wordprocessingml.document" THEN "docx"
     ELSE IF m = "application/vnd.openxmlformats-officedocument.spreadsheetml.sheet" THEN "xlsx"
     ELSE "pptx"]
LEGACY_MS_MAP ==
  [m \in {"application/msword", "application/vnd.ms-excel", "application/vnd.ms-powerpoint"} |->
     IF m = "application/msword" THEN "doc"
     ELSE IF m = "application/vnd.ms-excel" THEN "xls"
     ELSE "ppt"]

\* the index of the last "/" of s, 0 when there is none
LastSlash(s) ==
  IF \E i \in 1..Len(s) : Char(s, i) = "/"
  THEN CHOOSE i \in 1..Len(s) : Char(s, i) = "/" /\ \A j \in (i + 1)..Len(s) : Char(s, j) # "/"
  ELSE 0

mime_family(mime0) ==
  Only({IF mime \in DOMAIN OPENXML_MAP THEN OPENXML_MAP[mime]
        ELSE IF mime \in DOMAIN LEGACY_MS_MAP THEN LEGACY_MS_MAP[mime]
        ELSE IF LastSlash(mime) > 0 THEN Drop(mime, LastSlash(mime))
        ELSE mime :
        mime \in {Strip(Lower(OrElse(mime0, "")))}})

\* what a call yields when it raises instead of returning
RAISED == "<raised>"

\* FileKind without the normalisation of jpeg and svg+xml
FileKind_NoNormalize(item) ==
  LET ch   == HandlerOrEmpty(item)
      f    == IF ch.file.kind = "dict" THEN ch.file ELSE EmptyFile
  IN Only({IF fam \in {"jpg", "png", "gif", "webp", "svg"} THEN "Image"
           ELSE IF fam \in {"pdf"} THEN "PDF"
           ELSE IF fam \in {"mp4", "quicktime", "webm"} THEN "Video"
           ELSE IF fam \in {"mp3", "wav", "mpeg"} THEN "Audio"
           ELSE "FILE" :
           fam \in {mime_family(Only({Lower(m) : m \in {Strip(OrElse(Get(f.mimeType), ""))}}))}})
\* the sub-kind of a record the "file" rule matched (lines 48-64)
FileKind(item) ==
  LET ch   == HandlerOrEmpty(item)
      f    == IF ch.file.kind = "dict" THEN ch.file ELSE EmptyFile
  IN Only({LET fam == IF fam0 = "jpeg" THEN "jpg" ELSE IF fam0 = "svg+xml" THEN "svg" ELSE fam0
           IN IF fam \in {"jpg", "png", "gif", "webp", "svg"} THEN "Image"
              ELSE IF fam \in {"pdf"} THEN "PDF"
              ELSE IF fam \in {"mp4", "quicktime", "webm"} THEN "Video"
              ELSE IF fam \in {"mp3", "wav", "mpeg"} THEN "Audio"
              ELSE "FILE" :
           fam0 \in {mime_family(Only({Lower(m) : m \in {Strip(OrElse(Get(f.mimeType), ""))}}))}})

\* the rule that decides a module: "x-bb-lesson", not any "lesson"
IsModuleHandler(h) ==
  \/ Contains(h, "x-bb-lesson")
  \/ Contains(h, "learningmodule")
  \/ Contains(h, "learning-module")
  \/ (Contains(h, "learning") /\ Contains(h, "module"))

\* node_type with the file rule tried before the module rule
ClassifyHandler_FileFirst(item, h) ==
  IF StartsWith(h, "resource/x-bb-document")
    THEN (IF Lower(Strip(OrElse(Get(item.title), ""))) \in {"ultradocumentbody", "documentbody"}
          THEN "UltraBody" ELSE "ULTRA DOC")
  ELSE IF Contains(h, "file") THEN FileKind(item)
  ELSE IF IsModuleHandler(h) THEN "MODULE"
  ELSE "Unknown"

\* the rules of node_type once the handler id h is a lowered str
ClassifyHandler(item, h) ==
  LET title_lc == Lower(Strip(OrElse(Get(item.title), "")))
      body_lc  == Lower(OrElse(Get(item.body), ""))
  IN IF StartsWith(h, "resource/x-bb-document")
       THEN (IF title_lc \in {"ultradocumentbody", "documentbody"} THEN "UltraBody" ELSE "ULTRA DOC")
     ELSE IF IsModuleHandler(h) THEN "MODULE"
     ELSE IF Contains(h, "folder") THEN "Folder"
     ELSE IF Contains(h, "externallink") THEN "Link"
     ELSE IF Contains(h, "courselink") THEN "COURSE LINK"
     ELSE IF Contains(h, "file") THEN FileKind(item)
     ELSE IF Contains(h, "asmt-survey-link") THEN "FORM"
     ELSE IF Contains(h, "asmt-test-link") \/ Contains(h, "assignment") THEN "TEST/ASSIGNMENT"
     ELSE IF Contains(h, "plugin-scormengine") THEN "SCORM"
     ELSE IF Contains(h, "x-bb-blti-link") \/ Contains(h, "bltiplacement") THEN "LTI"
     ELSE IF Contains(body_lc, "data-bbtype=\"video-studio\"") THEN "VideoStudio"
     ELSE "Unknown"

\* node_type: (item.get("contentHandler") or {}).get("id", "").lower() raises
\* AttributeError when the id key is present with a null value
node_type(item) ==
  LET raw == GetDefault(HandlerOrEmpty(item).id, "")
  IN IF raw = NULL THEN RAISED ELSE Only({ClassifyHandler(item, h) : h \in {Lower(raw)}})

NodeTypes == {"UltraBody", "ULTRA DOC", "MODULE", "Folder", "Link", "COURSE LINK", "Image", "PDF",
              "Video", "Audio", "FILE", "FORM", "TEST/ASSIGNMENT", "SCORM", "LTI", "VideoStudio",
              "Unknown"}

is_ultra_body(item) == node_type(item) = "UltraBody"

(***************************************************************************)
(* Regular-expression pieces shared by the embedded-markup extractors.      *)
(* Positions are counted from 1; 0 stands for "no position".  L is always  *)
(* Lower(s): the patterns are compiled with re.I.                          *)
(***************************************************************************)
\* the first position >= i of s holding character c, 0 when there is none
FirstChar(s, i, c) ==
  IF \E j \in i..Len(s) : Char(s, j) = c
  THEN CHOOSE j \in i..Len(s) : Char(s, j) = c /\ \A k \in i..(j - 1) : Char(s, k) # c
  ELSE 0
\* the first position >= i where s, read from there, starts with p, 0 when none
FirstAt(s, i, p) ==
  IF \E j \in i..Len(s) : MatchAt(s, j, p)
  THEN CHOOSE j \in i..Len(s) : MatchAt(s, j, p) /\ \A k \in i..(j - 1) : ~MatchAt(s, k, p)
  ELSE 0
\* \s of re: the ASCII white space
IsReSpace(c) == c \in {" ", "\t", "\n", "\r", "\f"}
RECURSIVE SkipSpace(_, _)
\* \s* from position i: the first position not holding white space
SkipSpace(s, i) == IF i <= Len(s) /\ IsReSpace(Char(s, i)) THEN SkipSpace(s, i + 1) ELSE i
\* \w of re on ASCII
IsWord(c) == c # "" /\ (IndexIn(LowerLetters, c) > 0 \/ IndexIn(UpperLetters, c) > 0
                        \/ IndexIn(Digits, c) > 0 \/ c = "_")
NoMatch == [ok |-> FALSE, val |-> "", end |-> 0]
\* name\s*=\s*"([^"]+)" matched at position i: the value and the position of
\* the closing quote
AttrAt(s, L, i, name) ==
  IF ~MatchAt(L, i, name) THEN NoMatch
  ELSE LET eq == SkipSpace(s, i + Len(name))
       IN IF Char(s, eq) # "=" THEN NoMatch
          ELSE LET q == SkipSpace(s, eq + 1)
               IN IF Char(s, q) # "\"" THEN NoMatch
                  ELSE LET close == FirstChar(s, q + 1, "\"")
                       IN IF close <= q + 1 THEN NoMatch
                          ELSE [ok |-> TRUE, val |-> SubSeq(s, q + 1, close - 1), end |-> close]

\* text.replace(old, new), left to right
RECURSIVE Replace(_, _, _)
Replace(s, old, new) ==
  LET j == FirstAt(s, 1, old)
  IN IF j = 0 THEN s ELSE Take(s, j - 1) \o new \o Replace(Drop(s, j + Len(old) - 1), old, new)
\* html.unescape on the named references that occur in the inputs: &quot; &lt;
\* &gt; and, last, &amp;
Unescape(s) == Replace(Replace(Replace(Replace(s, "&quot;", "\""), "&lt;", "<"), "&gt;", ">"), "&amp;", "&")

(***************************************************************************)
(* Embedded-markup extractors (cm_shared.py).                              *)
(***************************************************************************)
JsonFail == [ok |-> FALSE, pairs |-> <<>>]
RECURSIVE JsonMembers(_, _, _)
\* the members "key":"value" of a flat JSON object from position i on
JsonMembers(t, i, acc) ==
  IF Char(t, i) # "\"" THEN JsonFail
  ELSE LET kEnd == FirstChar(t, i + 1, "\"")
       IN IF kEnd = 0 \/ Char(t, kEnd + 1) # ":" \/ Char(t, kEnd + 2) # "\"" THEN JsonFail
          ELSE LET vEnd == FirstChar(t, kEnd + 3, "\"")
                   acc2 == Append(acc, <<SubSeq(t, i + 1, kEnd - 1), SubSeq(t, kEnd + 3, vEnd - 1)>>)
               IN IF vEnd = 0 THEN JsonFail
                  ELSE IF Char(t, vEnd + 1) = "," THEN JsonMembers(t, vEnd + 2, acc2)
                  ELSE IF Char(t, vEnd + 1) = "}" /\ vEnd + 1 = Len(t) THEN [ok |-> TRUE, pairs |-> acc2]
                  ELSE JsonFail
\* json.loads followed by the obj.get calls, on the texts that occur in the
\* inputs: a flat object of string members decodes to its members; any other
\* text either fails to decode or decodes to a value without .get, and both
\* raise inside the try block
JsonObject(t) ==
  IF t = "{}" THEN [ok |-> TRUE, pairs |-> <<>>]
  ELSE IF Char(t, 1) = "{" THEN JsonMembers(t, 2, <<>>)
  ELSE JsonFail
\* obj.get(key): the last member of that name, None when there is none
JsonGet(pairs, key) ==
  IF \E i \in 1..Len(pairs) : pairs[i][1] = key
  THEN pairs[CHOOSE i \in 1..Len(pairs) : pairs[i][1] = key /\ \A j \in (i + 1)..Len(pairs) : pairs[j][1] # key][2]
  ELSE NULL

\* the leftmost match of _DATA_BBFILE_RE at or after position i
NextBbfile(s, L, i) ==
  IF \E j \in i..Len(s) : AttrAt(s, L, j, "data-bbfile").ok
  THEN AttrAt(s, L, CHOOSE j \in i..Len(s) :
                      /\ AttrAt(s, L, j, "data-bbfile").ok
                      /\ \A k \in i..(j - 1) : ~AttrAt(s, L, k, "data-bbfile").ok, "data-bbfile")
  ELSE NoMatch

\* BbfileEntry without the test if name
BbfileEntry_KeepNameless(raw) ==
  LET obj    == JsonObject(Unescape(raw))
      name   == Strip(OrElse(JsonGet(obj.pairs, "linkName"), OrElse(JsonGet(obj.pairs, "alternativeText"), "")))
      mime   == Strip(OrElse(JsonGet(obj.pairs, "mimeType"), ""))
      render == Strip(OrElse(JsonGet(obj.pairs, "render"), ""))
  IN IF obj.ok THEN <<[name |-> name, mime |-> mime, render |-> render]>> ELSE <<>>
\* the entry of one data-bbfile match, <<>> when the match is dropped
BbfileEntry(raw) ==
  LET obj    == JsonObject(Unescape(raw))
      name   == Strip(OrElse(JsonGet(obj.pairs, "linkName"), OrElse(JsonGet(obj.pairs, "alternativeText"), "")))
      mime   == Strip(OrElse(JsonGet(obj.pairs, "mimeType"), ""))
      render == Strip(OrElse(JsonGet(obj.pairs, "render"), ""))
  IN IF obj.ok /\ name # "" THEN <<[name |-> name, mime |-> mime, render |-> render]>> ELSE <<>>

RECURSIVE BbfileEntries(_, _, _)
BbfileEntries(s, L, i) ==
  LET m == NextBbfile(s, L, i)
  IN IF m.ok THEN BbfileEntry(m.val) \o BbfileEntries(s, L, m.end + 1) ELSE <<>>

\* body_html is None, absent or a str
parse_embedded_files_from_body(body_html) ==
  IF ~Truthy(body_html) THEN <<>> ELSE BbfileEntries(body_html, Lower(body_html), 1)

\* the last position t in from..Len(s) that [^>]* can reach from `from` and
\* where the attribute `name` matches, as the greedy [^>]* finds it
LastAttrInTag(s, L, from, name) ==
  LET reach == {t \in from..Len(s) : (\A k \in from..(t - 1) : Char(s, k) # ">") /\ AttrAt(s, L, t, name).ok}
  IN IF reach = {} THEN NoMatch
     ELSE AttrAt(s, L, CHOOSE t \in reach : \A u \in reach : u <= t, name)

\* _CONTENT_LINK_PAIR_RE tried at position i: id first, or type first
ContentLinkAt(s, L, i) ==
  LET a1 == AttrAt(s, L, i, "data-content-link")
      a2 == IF a1.ok THEN LastAttrInTag(s, L, a1.end + 1, "data-content-link-type") ELSE NoMatch
      b1 == AttrAt(s, L, i, "data-content-link-type")
      b2 == IF b1.ok THEN LastAttrInTag(s, L, b1.end + 1, "data-content-link") ELSE NoMatch
  IN IF a1.ok /\ a2.ok THEN [ok |-> TRUE, cid |-> a1.val, ltype |-> a2.val, end |-> a2.end]
     ELSE IF b1.ok /\ b2.ok THEN [ok |-> TRUE, cid |-> b2.val, ltype |-> b1.val, end |-> b2.end]
     ELSE [ok |-> FALSE, cid |-> "", ltype |-> "", end |-> 0]

RECURSIVE ContentLinks(_, _, _)
ContentLinks(s, L, i) ==
  IF \E j \in i..Len(s) : ContentLinkAt(s, L, j).ok
  THEN LET j == CHOOSE j \in i..Len(s) : ContentLinkAt(s, L, j).ok /\ \A k \in i..(j - 1) : ~ContentLinkAt(s, L, k).ok
           m == ContentLinkAt(s, L, j)
       IN (IF Strip(m.cid) # "" THEN <<<<Strip(m.cid), Strip(m.ltype)>>>> ELSE <<>>)
          \o ContentLinks(s, L, m.end + 1)
  ELSE <<>>

parse_embedded_content_links(body_html) ==
  IF ~Truthy(body_html) THEN <<>> ELSE ContentLinks(body_html, Lower(body_html), 1)

NoAnchor == [ok |-> FALSE, g1 |-> "", g2 |-> "", g3 |-> "", g4 |-> "", end |-> 0]
\* \bhref="(https?://[^"]+)"([^>]*)>(.*?)</a> tried with href at position p:
\* the groups 2, 3 and 4 and the position of the last character of </a>
HrefAt(s, L, p) ==
  LET u == p + 6
      w == IF MatchAt(L, u, "https://") THEN u + 8 ELSE IF MatchAt(L, u, "http://") THEN u + 7 ELSE 0
      q == IF w > 0 THEN FirstChar(s, w, "\"") ELSE 0
      g == IF q > w /\ w > 0 THEN FirstChar(s, q + 1, ">") ELSE 0
      e == IF g > 0 THEN FirstAt(L, g + 1, "</a>") ELSE 0
  IN IF MatchAt(L, p, "href=\"") /\ ~IsWord(Char(s, p - 1)) /\ e > 0
     THEN [ok |-> TRUE, g1 |-> "", g2 |-> SubSeq(s, u, q - 1), g3 |-> SubSeq(s, q + 1, g - 1),
           g4 |-> SubSeq(s, g + 1, e - 1), end |-> e + 3]
     ELSE NoAnchor

\* _INLINE_A_RE tried at position i: <a\b([^>]*?) takes the shortest group 1
\* after which the rest of the pattern matches
InlineAnchorAt(s, L, i) ==
  LET P == {p \in (i + 2)..Len(s) : (\A k \in (i + 2)..(p - 1) : Char(s, k) # ">") /\ HrefAt(s, L, p).ok}
  IN IF MatchAt(L, i, "<a") /\ ~IsWord(Char(s, i + 2)) /\ P # {}
     THEN LET p == CHOOSE p \in P : \A r \in P : p <= r
          IN [HrefAt(s, L, p) EXCEPT !.g1 = SubSeq(s, i + 2, p - 1)]
     ELSE NoAnchor

\* re.sub(r"<[^>]+>", "", text)
RECURSIVE StripTags(_)
StripTags(text) ==
  LET J == {j \in 1..Len(text) : Char(text, j) = "<" /\ FirstChar(text, j + 1, ">") > j + 1}
  IN IF J = {} THEN text
     ELSE LET j == CHOOSE j \in J : \A r \in J : j <= r
          IN Take(text, j - 1) \o StripTags(Drop(text, FirstChar(text, j + 1, ">")))

\* parse_inline_urls that looks for the markers only before the href
InlineEntry_PrefixOnly(m) ==
  LET href == Strip(m.g2)
      text == Strip(Unescape(StripTags(Strip(m.g4))))
  IN IF Contains(Lower(m.g1), "data-bbfile") \/ Contains(Lower(m.g1), "data-content-link") THEN <<>>
     ELSE IF href # "" THEN <<<<href, IF text # "" THEN text ELSE href>>>>
     ELSE <<>>

\* the body of the loop of parse_inline_urls for one match: the entry, or none
InlineEntry(m) ==
  LET a_prefix_lc == Lower(m.g1 \o m.g3)
      href == Strip(m.g2)
      text == Strip(Unescape(StripTags(Strip(m.g4))))
  IN IF Contains(a_prefix_lc, "data-bbfile") \/ Contains(a_prefix_lc, "data-content-link") THEN <<>>
     ELSE IF href # "" THEN <<<<href, IF text # "" THEN text ELSE href>>>>
     ELSE <<>>

RECURSIVE InlineEntries(_, _, _)
\* _INLINE_A_RE.finditer from position i on
InlineEntries(s, L, i) ==
  IF \E j \in i..Len(s) : InlineAnchorAt(s, L, j).ok
  THEN LET j == CHOOSE j \in i..Len(s) : InlineAnchorAt(s, L, j).ok /\ \A k \in i..(j - 1) : ~InlineAnchorAt(s, L, k).ok
           m == InlineAnchorAt(s, L, j)
       IN InlineEntry(m) \o InlineEntries(s, L, m.end + 1)
  ELSE <<>>

parse_inline_urls(body_html) ==
  IF ~Truthy(body_html) THEN <<>> ELSE InlineEntries(body_html, Lower(body_html), 1)

(***************************************************************************)
(* Shared formatting helpers (cm_shared.py).                               *)
(***************************************************************************)
RECURSIVE Join(_, _)
\* sep.join(parts)
Join(sep, parts) ==
  IF parts = <<>> THEN ""
  ELSE IF Len(parts) = 1 THEN parts[1]
  ELSE parts[1] \o sep \o Join(sep, Tail(parts))

\* files_csv_field with the mime and render columns exchanged
files_csv_field_Swapped(files) ==
  Join("; ", [i \in 1..Len(files) |->
                GetDefault(files[i].name, "") \o "|" \o GetDefault(files[i].render, "") \o "|"
                \o GetDefault(files[i].mime, "")])

\* f.get('name','') etc.: a missing key of a file dict reads as ''
files_csv_field(files) ==
  Join("; ", [i \in 1..Len(files) |->
                GetDefault(files[i].name, "") \o "|" \o GetDefault(files[i].mime, "") \o "|"
                \o GetDefault(files[i].render, "")])

content_links_csv_field(links) ==
  Join("; ", [i \in 1..Len(links) |-> links[i][1] \o "|" \o links[i][2]])

\* inline_urls_csv_field: "txt|href" for each (href, txt)
inline_urls_csv_field(us) ==
  Join("; ", [i \in 1..Len(us) |-> us[i][2] \o "|" \o us[i][1]])

(***************************************************************************)
(* Content records.                                                        *)
(***************************************************************************)
NoPos == [int |-> FALSE, v |-> 0]
IntPos(n) == [int |-> TRUE, v |-> n]
Handler(hid) == [EmptyHandler EXCEPT !.id = hid]
FileHandler(hid, mime) == [EmptyHandler EXCEPT !.id = hid, !.file = [kind |-> "dict", mimeType |-> mime]]
PageHandler(flag) == [EmptyHandler EXCEPT !.id = "resource/x-bb-folder", !.isBbPage = flag]
Item(id, parentId, title, pos, ch, body) ==
  [id |-> id, parentId |-> parentId, title |-> title, position |-> pos, contentHandler |-> ch,
   body |-> body]
\* the dict {}: every key missing
EmptyItem == Item(ABSENT, ABSENT, ABSENT, NoPos, [EmptyHandler EXCEPT !.kind = "absent"], ABSENT)
\* bool(item) of a dict: false for {} only
DictTruthy(it) == it # EmptyItem

VARIABLES
  item,        \* classification: the record node_type is called on
  typ,         \* classification: what the last call yielded ("" before the first)
  first,       \* classification: what the first call yielded ("" before it)
  calls,       \* classification: the number of calls made
  anchors,     \* inline URLs: the anchors the body is written from
  body_html,   \* inline URLs: the body handed to parse_inline_urls
  urls,        \* inline URLs: the list parse_inline_urls returned
  inline_done, \* inline URLs: parse_inline_urls has returned
  tags,        \* embedded files: the data-bbfile tags the body is written from
  embed_body,  \* embedded files: the body handed to parse_embedded_files_from_body
  embedded,    \* embedded files: the list parse_embedded_files_from_body returned
  embed_done,  \* embedded files: parse_embedded_files_from_body has returned
  files,       \* CSV field: the list of embedded files
  field,       \* CSV field: the string files_csv_field returned
  csv_done,    \* CSV field: files_csv_field has returned
  args,        \* file lines: [no_tree_truncate, tree_file_limit] as parsed from the command line
  tree_limit,  \* file lines: main's tree_limit, [none, v] (None is none = TRUE)
  limit_pc,    \* file lines: "idle", "args" (before tree_limit is set) or "set"
  tree_line,   \* file lines: the string format_files_for_tree returned
  tree_done,   \* file lines: format_files_for_tree has returned
  badges,      \* file lines: the texts of the badges files_to_badges wrote, in order
  badges_done, \* file lines: files_to_badges has returned
  path_node,   \* path: the record compute_path is called on
  path_by_id,  \* path: the id-to-record map compute_path is called with
  cur,         \* path: compute_path's cur, [some, rec] (None is some = FALSE)
  seen,        \* path: compute_path's seen
  names,       \* path: compute_path's names
  path_pc,     \* path: "idle", "loop" (at the while test) or "done" (returned)
  path,        \* path: the string compute_path returned
  sort_items,  \* sibling order: the list children_index is called on
  by_parent,   \* sibling order: the dict children_index returned, parent key -> list indices
  sort_done,   \* sibling order: children_index has returned
  course_ids,  \* main: the course ids of the batch, in order
  remote,      \* main: per course, what the server holds ([fails, items])
  show_bodies, \* main: not args.hide_bodies
  want,        \* main: [txt, csv, html], the outputs asked for
  ci,          \* main: the index in course_ids of the course in hand
  pc,          \* main: the step of the loop body the course in hand is at
  items,       \* main: the records fetched for the course in hand
  by_id,       \* main: index_by_id(items), id -> list index of the record
  kids,        \* main: children_index(items), parent key -> list indices
  roots,       \* main: the roots list, list indices
  rows,        \* main: the rows draw_tree_txt returned
  html,        \* main: the nodes of the tree build_html returned, in document order
  written,     \* main: the files written so far, [course, kind]
  errors       \* main: the courses reported on stderr so far

classifyVars == <<item, typ, first, calls>>
embedVars == <<tags, embed_body, embedded, embed_done>>
inlineVars == <<anchors, body_html, urls, inline_done, embedVars>>
lineVars == <<args, tree_limit, limit_pc, tree_line, tree_done, badges, badges_done>>
csvVars == <<files, field, csv_done, lineVars>>
pathVars == <<path_node, path_by_id, cur, seen, names, path_pc, path>>
sortVars == <<sort_items, by_parent, sort_done>>
batchVars == <<course_ids, remote, show_bodies, want>>
courseVars == <<ci, pc, items, by_id, kids, roots, rows, html>>
outVars == <<written, errors>>
mainVars == <<batchVars, courseVars, outVars>>
vars == <<classifyVars, inlineVars, csvVars, pathVars, sortVars, mainVars>>

\* the parts of the state a specification does not use stay as they are here
ClassifyIdle == item = EmptyItem /\ typ = "" /\ first = "" /\ calls = 0
EmbedIdle == tags = <<>> /\ embed_body = "" /\ embedded = <<>> /\ embed_done = FALSE
InlineIdle == anchors = <<>> /\ body_html = "" /\ urls = <<>> /\ inline_done = FALSE /\ EmbedIdle
LineIdle ==
  /\ args = [no_tree_truncate |-> FALSE, tree_file_limit |-> 10]
  /\ tree_limit = [none |-> TRUE, v |-> 0] /\ limit_pc = "idle"
  /\ tree_line = "" /\ tree_done = FALSE /\ badges = <<>> /\ badges_done = FALSE
CsvIdle == files = <<>> /\ field = "" /\ csv_done = FALSE /\ LineIdle
PathIdle ==
  /\ path_node = EmptyItem /\ path_by_id = [id \in {} |-> EmptyItem] /\ cur = [some |-> FALSE, rec |-> EmptyItem]
  /\ seen = {} /\ names = <<>> /\ path_pc = "idle" /\ path = ""
SortIdle == sort_items = <<>> /\ by_parent = <<>> /\ sort_done = FALSE
MainIdle ==
  /\ course_ids = <<>> /\ remote = <<>> /\ show_bodies = TRUE
  /\ want = [txt |-> FALSE, csv |-> FALSE, html |-> FALSE]
  /\ ci = 0 /\ pc = "off" /\ items = <<>> /\ by_id = <<>> /\ kids = <<>> /\ roots = <<>>
  /\ rows = <<>> /\ html = <<>> /\ written = <<>> /\ errors = <<>>

(***************************************************************************)
(* Classification: node_type applied to a record, again and again.         *)
(***************************************************************************)
MaxCalls == 2

ClassifyHandlerIds ==
  {"resource/x-bb-document", "resource/x-bb-document-file", "Resource/X-BB-Document",
   "resource/x-bb-lesson", "resource/x-bb-lesson-file", "resource/lesson-file",
   "Resource/X-BB-Lesson-File",
   "resource/x-bb-learning-module", "resource/learning-file-module",
   "resource/x-bb-folder", "resource/x-bb-file-folder", "resource/x-bb-assignment-file",
   "resource/x-bb-externallink", "resource/x-bb-courselink", "resource/x-bb-file",
   "resource/x-bb-asmt-survey-link", "resource/x-bb-asmt-test-link", "resource/x-bb-assignment",
   "resource/x-plugin-scormengine", "resource/x-bb-blti-link", "resource/bltiplacement-tool",
   "resource/x-bb-blankpage", ""}

ClassifyMimes ==
  {ABSENT, NULL, "image/jpeg", "image/svg+xml", "application/pdf", "video/quicktime", " Audio/MPEG ",
   "application/vnd.openxmlformats-officedocument.wordprocessingml.document", "application/msword",
   "text/plain"}

ClassifyHandlers ==
  {[EmptyHandler EXCEPT !.kind = "absent"], [EmptyHandler EXCEPT !.kind = "null"], EmptyHandler,
   Handler(NULL)}
  \cup {Handler(h) : h \in ClassifyHandlerIds}
  \cup {FileHandler(h, m) : h \in {"resource/x-bb-file", "resource/lesson-file",
                                   "resource/x-bb-lesson-file"}, m \in ClassifyMimes}

ClassifyTitles == {ABSENT, NULL, "", " ultraDocumentBody ", "Week 1"}
ClassifyBodies == {ABSENT, "<a data-bbtype=\"video-studio\" href=\"https://v/1\">v</a>"}

ClassifyItems ==
  {Item("_1_1", ABSENT, t, NoPos, ch, b) : t \in ClassifyTitles, ch \in ClassifyHandlers, b \in ClassifyBodies}

InitClassify ==
  /\ item \in ClassifyItems
  /\ typ = ""
  /\ first = ""
  /\ calls = 0
  /\ InlineIdle /\ CsvIdle /\ PathIdle /\ SortIdle /\ MainIdle

\* one call of node_type(item)
Classify ==
  /\ calls < MaxCalls
  /\ typ' = node_type(item)
  /\ first' = IF calls = 0 THEN node_type(item) ELSE first
  /\ calls' = calls + 1
  /\ UNCHANGED <<item, inlineVars, csvVars, pathVars, sortVars, mainVars>>

NextClassify == Classify

SpecClassify == InitClassify /\ [][NextClassify]_vars

FileTypes == {"Image", "PDF", "Video", "Audio", "FILE"}

\* C1: node_type is total and deterministic: every call on every record (handler
\* absent, empty, or with a null id; title or body absent) returns one NodeType
\* tag without raising, and every repeated call returns the tag of the first.
C1_TotalDeterministic == calls > 0 => (typ \in NodeTypes /\ typ = first)

MaxAnchors == 2

AnchorPlain ==
  [html |-> "<a href=\"https://e.com/a\">Link</a>",
   marker |-> FALSE, href |-> "https://e.com/a", dq |-> TRUE, gt |-> FALSE, label |-> "Link"]
AnchorFileBefore ==
  [html |-> "<a data-bbfile=\"{}\" href=\"https://e.com/fb\">File</a>",
   marker |-> TRUE, href |-> "https://e.com/fb", dq |-> TRUE, gt |-> FALSE, label |-> "File"]
AnchorFileAfter ==
  [html |-> "<a href=\"https://e.com/fa\" data-bbfile=\"{}\">File</a>",
   marker |-> TRUE, href |-> "https://e.com/fa", dq |-> TRUE, gt |-> FALSE, label |-> "File"]
AnchorLinkBefore ==
  [html |-> "<a data-content-link=\"_7_1\" href=\"https://e.com/lb\">Item</a>",
   marker |-> TRUE, href |-> "https://e.com/lb", dq |-> TRUE, gt |-> FALSE, label |-> "Item"]
AnchorLinkAfter ==
  [html |-> "<a href=\"https://e.com/la\" data-content-link=\"_7_1\">Item</a>",
   marker |-> TRUE, href |-> "https://e.com/la", dq |-> TRUE, gt |-> FALSE, label |-> "Item"]
AnchorAttrs ==
  [html |-> "<A class=\"k\" HREF=\"HTTP://E.com/U\" target=\"_blank\"> <b>Hi</b>\nyou </A>",
   marker |-> FALSE, href |-> "HTTP://E.com/U", dq |-> TRUE, gt |-> FALSE, label |-> "Hi\nyou"]
AnchorEmpty ==
  [html |-> "<a href=\"https://e.com/e\"> <i></i> </a>",
   marker |-> FALSE, href |-> "https://e.com/e", dq |-> TRUE, gt |-> FALSE, label |-> ""]
AnchorEntity ==
  [html |-> "<a href=\"https://e.com/q\">Q&amp;A</a>",
   marker |-> FALSE, href |-> "https://e.com/q", dq |-> TRUE, gt |-> FALSE, label |-> "Q&A"]
AnchorSingle ==
  [html |-> "<a href='https://e.com/s'>Single</a>",
   marker |-> FALSE, href |-> "https://e.com/s", dq |-> FALSE, gt |-> FALSE, label |-> "Single"]
AnchorRelative ==
  [html |-> "<a href=\"/local\">Local</a>",
   marker |-> FALSE, href |-> "", dq |-> TRUE, gt |-> FALSE, label |-> "Local"]
AnchorNoHref ==
  [html |-> "<a name=\"top\">Top</a>",
   marker |-> FALSE, href |-> "", dq |-> TRUE, gt |-> FALSE, label |-> "Top"]
AnchorGtFile ==
  [html |-> "<a href=\"https://e.com/g\" title=\"a>b\" data-bbfile=\"{}\">Gt</a>",
   marker |-> TRUE, href |-> "https://e.com/g", dq |-> TRUE, gt |-> TRUE, label |-> "Gt"]
InlineAnchors ==
  {AnchorPlain, AnchorFileBefore, AnchorFileAfter, AnchorLinkBefore, AnchorLinkAfter, AnchorAttrs, AnchorEmpty, AnchorEntity, AnchorSingle, AnchorRelative, AnchorNoHref, AnchorGtFile}

AnchorSep == " and\n"

RECURSIVE SeqsUpTo(_, _)
\* the sequences over S of length at most n
SeqsUpTo(S, n) ==
  IF n = 0 THEN {<<>>}
  ELSE LET shorter == SeqsUpTo(S, n - 1)
       IN shorter \cup {Append(q, x) : q \in {r \in shorter : Len(r) = n - 1}, x \in S}

BodyOf(as) == Join(AnchorSep, [i \in 1..Len(as) |-> as[i].html])

InitInline ==
  /\ anchors \in SeqsUpTo(InlineAnchors, MaxAnchors)
  /\ body_html = BodyOf(anchors)
  /\ urls = <<>>
  /\ inline_done = FALSE
  /\ EmbedIdle
  /\ ClassifyIdle /\ CsvIdle /\ PathIdle /\ SortIdle /\ MainIdle

\* one call of parse_inline_urls(body_html)
ParseInline ==
  /\ ~inline_done
  /\ urls' = parse_inline_urls(body_html)
  /\ inline_done' = TRUE
  /\ UNCHANGED <<anchors, body_html, embedVars, classifyVars, csvVars, pathVars, sortVars, mainVars>>

NextInline == ParseInline

SpecInline == InitInline /\ [][NextInline]_vars

RECURSIVE Flatten(_)
Flatten(ss) == IF ss = <<>> THEN <<>> ELSE Head(ss) \o Flatten(Tail(ss))

AnchorEntry(a) == <<<<a.href, IF a.label # "" THEN a.label ELSE a.href>>>>

MaxFiles == 2

CsvFiles ==
  {[name |-> n, mime |-> m, render |-> r] :
     n \in {"a.pdf", "b c.txt", "x;y", "p|q", ABSENT}, m \in {"application/pdf", ""}, r \in {"inline", ABSENT}}

InitCsv ==
  /\ files \in SeqsUpTo(CsvFiles, MaxFiles)
  /\ field = ""
  /\ csv_done = FALSE
  /\ LineIdle
  /\ ClassifyIdle /\ InlineIdle /\ PathIdle /\ SortIdle /\ MainIdle

\* one call of files_csv_field(files)
EncodeFiles ==
  /\ ~csv_done
  /\ field' = files_csv_field(files)
  /\ csv_done' = TRUE
  /\ UNCHANGED <<files, lineVars, classifyVars, inlineVars, pathVars, sortVars, mainVars>>

NextCsv == EncodeFiles

SpecCsv == InitCsv /\ [][NextCsv]_vars

RECURSIVE Split(_, _)
\* s.split(sep)
Split(s, sep) ==
  LET j == FirstAt(s, 1, sep)
  IN IF j = 0 THEN <<s>> ELSE <<Take(s, j - 1)>> \o Split(Drop(s, j + Len(sep) - 1), sep)

\* the string split on recSep, each piece split on "|"
DecodeField(s, recSep) == LET pieces == Split(s, recSep) IN [i \in 1..Len(pieces) |-> Split(pieces[i], "|")]
\* the (name, mime, render) triples of a list of files
Triples(fs) ==
  [i \in 1..Len(fs) |-> <<GetDefault(fs[i].name, ""), GetDefault(fs[i].mime, ""), GetDefault(fs[i].render, "")>>]
PlainFields(fs) ==
  \A i \in 1..Len(fs) : \A k \in 1..3 : ~Contains(Triples(fs)[i][k], ";") /\ ~Contains(Triples(fs)[i][k], "|")

\* C8 as stated: for every list of files, splitting the field on ";" and each
\* piece on "|" recovers the original (name, mime, render) triples, in order.
C8_RoundTrip == csv_done => DecodeField(field, ";") = Triples(files)

\* C8 amended: for every non-empty list of files whose names, mimes and renders
\* hold neither ";" nor "|", splitting the field on "; " (the separator
\* files_csv_field writes) and each piece on "|" recovers the triples, in order.
C8_RoundTripSeparator ==
  (csv_done /\ files # <<>> /\ PlainFields(files)) => DecodeField(field, "; ") = Triples(files)

\* two different files with plain fields have been encoded
C8_Witness ==
  /\ csv_done
  /\ Len(files) = 2
  /\ files[1].name = "a.pdf" /\ files[2].name = "b c.txt"
  /\ field = "a.pdf|application/pdf|inline; b c.txt||"

(***************************************************************************)
(* Path resolution: compute_path, one iteration of its while loop a step.  *)
(***************************************************************************)
MaxPathSteps == 6

PathIds == {"A", "B", "C"}
PathParents == {ABSENT, "A", "B", "C", "Z"}
\* a record's title and handler: titled, untitled with a handler, or neither
PathLooks == {<<"T", Handler("resource/x-bb-folder")>>, <<"", Handler("Resource/X-BB-File")>>,
              <<ABSENT, EmptyHandler>>}
PathRecord(id, parent, look) ==
  Item(id, parent, IF look[1] = "T" THEN "T" \o id ELSE look[1], NoPos, look[2], ABSENT)
\* the maps index_by_id builds over the ids A, B and C: each key holds a record of
\* that id; A takes every look, B is titled or nameless, C is titled
PathMaps ==
  {[id \in PathIds |-> PathRecord(id, par[id], IF id = "A" THEN lookA ELSE IF id = "B" THEN lookB ELSE <<"T", EmptyHandler>>)] :
     par \in [PathIds -> PathParents], lookA \in PathLooks, lookB \in {<<"T", EmptyHandler>>, <<ABSENT, EmptyHandler>>}}

None == [some |-> FALSE, rec |-> EmptyItem]
Some(r) == [some |-> TRUE, rec |-> r]

\* before the call
InitPath == PathIdle /\ ClassifyIdle /\ InlineIdle /\ CsvIdle /\ SortIdle /\ MainIdle

\* compute_path(item, by_id) is called: names = [], seen = set(), cur = item
PathCall ==
  /\ path_pc = "idle"
  /\ \E m \in PathMaps :
       \E n \in {m["A"], EmptyItem, PathRecord(ABSENT, "A", <<ABSENT, EmptyHandler>>)} :
         /\ path_by_id' = m
         /\ path_node' = n
         /\ cur' = Some(n)
  /\ seen' = {}
  /\ names' = <<>>
  /\ path_pc' = "loop"
  /\ UNCHANGED <<path, classifyVars, inlineVars, csvVars, sortVars, mainVars>>

\* the while test of compute_path that never looks at seen
LoopTest_NoCycleGuard(c, sn) == c.some /\ DictTruthy(c.rec)

\* while cur and cur.get("id") not in seen
LoopTest(c, sn) == c.some /\ DictTruthy(c.rec) /\ Get(c.rec.id) \notin sn

\* by_id.get(pid) if pid else None
ParentOf(r, ids) ==
  IF Truthy(Get(r.parentId)) /\ r.parentId \in DOMAIN ids THEN Some(ids[r.parentId]) ELSE None

\* one iteration of the loop body
PathStep ==
  /\ path_pc = "loop"
  /\ LoopTest(cur, seen)
  /\ Len(names) < MaxPathSteps
  /\ seen' = seen \cup {Get(cur.rec.id)}
  /\ names' = Append(names, LET t == Strip(OrElse(Get(cur.rec.title), "")) IN IF t # "" THEN t ELSE handler_id(cur.rec))
  /\ cur' = ParentOf(cur.rec, path_by_id)
  /\ UNCHANGED <<path_node, path_by_id, path_pc, path, classifyVars, inlineVars, csvVars, sortVars, mainVars>>

Reverse(q) == [i \in 1..Len(q) |-> q[Len(q) + 1 - i]]

\* the loop ends: names.reverse(); return " / ".join(names)
PathReturn ==
  /\ path_pc = "loop"
  /\ ~LoopTest(cur, seen)
  /\ path' = Join(" / ", Reverse(names))
  /\ path_pc' = "done"
  /\ UNCHANGED <<path_node, path_by_id, cur, seen, names, classifyVars, inlineVars, csvVars, sortVars, mainVars>>

NextPath == PathCall \/ PathStep \/ PathReturn

\* the loop is sequential code: once called it runs on as long as it can
SpecPath == InitPath /\ [][NextPath]_vars /\ WF_vars(PathStep \/ PathReturn)

\* the walk from the node reaches a second record
PathHasParent ==
  /\ DictTruthy(path_node)
  /\ ParentOf(path_node, path_by_id).some
  /\ ParentOf(path_node, path_by_id).rec.id # Get(path_node.id)
\* the node has a non-blank title or a handler id
PathNodeNamed == Strip(OrElse(Get(path_node.title), "")) # "" \/ handler_id(path_node) # ""

\* C4 as stated: compute_path terminates for every node and map, cycles and
\* self-loops included; it visits each id at most once and returns a finite
\* non-empty string.
C4_PathTerminatesNonEmpty ==
  /\ (path_pc = "loop") ~> (path_pc = "done")
  /\ [](Cardinality(seen) = Len(names) /\ Len(names) <= Cardinality(PathIds) + 1)
  /\ [](path_pc = "done" => path # "")

\* C4 amended: compute_path terminates for every node and map, cycles and
\* self-loops included; it visits each id at most once and returns a finite
\* string, which is non-empty exactly when the node is not the empty record and
\* has a non-blank title, a handler id, or a parent in the map other than itself.
C4_PathTerminates ==
  /\ (path_pc = "loop") ~> (path_pc = "done")
  /\ [](Cardinality(seen) = Len(names) /\ Len(names) <= Cardinality(PathIds) + 1)
  /\ [](path_pc = "done" => (path # "" <=> (DictTruthy(path_node) /\ (PathNodeNamed \/ PathHasParent))))

\* the walk over the 3-cycle A -> B -> C -> A has returned
C4_Witness ==
  /\ path_pc = "done"
  /\ path_node.id = "A" /\ path_node.parentId = "B"
  /\ path_by_id["B"].parentId = "C" /\ path_by_id["C"].parentId = "A"
  /\ path = "TC / TB / TA"

(***************************************************************************)
(* Indexing (course_map.py): index_by_id and children_index.  A list of    *)
(* records is a sequence; a record is known by its place in the list, so   *)
(* that two equal records of one list stay two objects.                    *)
(***************************************************************************)
\* isinstance(v, str)
IsStr(v) == v \notin {ABSENT, NULL, JTRUE, JFALSE}

\* the sort key's stand-in for a position that is no int
PosSentinel == 10000000
\* x.get("position") if isinstance(x.get("position"), int) else 10_000_000
PositionKey(x) == IF x.position.int THEN x.position.v ELSE PosSentinel
\* (x.get("title") or "")
TitleKey(x) == OrElse(Get(x.title), "")
\* the tuple comparison key(a) < key(b)
KeyLess(a, b) ==
  \/ PositionKey(a) < PositionKey(b)
  \/ PositionKey(a) = PositionKey(b) /\ StrLess(TitleKey(a), TitleKey(b))

\* list.sort(key=...) on a list of indices into its: stable, one insertion at a time
RECURSIVE StableSort(_, _)
StableSort(its, arr) ==
  IF arr = <<>> THEN <<>>
  ELSE LET n == Len(arr)
           x == arr[n]
           done == StableSort(its, SubSeq(arr, 1, n - 1))
           \* x goes behind every element that is not greater than it
           k == Cardinality({i \in 1..Len(done) : ~KeyLess(its[x], its[done[i]])})
       IN SubSeq(done, 1, k) \o <<x>> \o SubSeq(done, k + 1, Len(done))

\* arr.sort raises TypeError: two records under one parent have the same position key and
\* title keys that < cannot compare (a str and a bool); of one parent and one position
\* they would come out side by side, so no sort can place them without comparing them
SortRaises(its) ==
  \E i, j \in 1..Len(its) :
    /\ (IF IsStr(its[i].parentId) THEN its[i].parentId ELSE "") =
         (IF IsStr(its[j].parentId) THEN its[j].parentId ELSE "")
    /\ PositionKey(its[i]) = PositionKey(its[j])
    /\ IsStr(TitleKey(its[i])) /\ ~IsStr(TitleKey(its[j]))

\* pid_raw if isinstance(pid_raw, str) else ""
ParentKey(x) == IF IsStr(x.parentId) THEN x.parentId ELSE ""

\* by_parent.setdefault(pid, []).append(it), for the first n records: the list under k
RECURSIVE Under(_, _, _)
Under(its, n, k) ==
  IF n = 0 THEN <<>>
  ELSE Under(its, n - 1, k) \o (IF ParentKey(its[n]) = k THEN <<n>> ELSE <<>>)

\* children_index: parent key -> the records under it, sorted
children_index(its) ==
  [k \in {ParentKey(its[i]) : i \in 1..Len(its)} |-> StableSort(its, Under(its, Len(its), k))]

\* index_by_id: a later record of the same id replaces an earlier one
index_by_id(its) ==
  [k \in {its[i].id : i \in {j \in 1..Len(its) : IsStr(its[j].id) /\ its[j].id # ""}} |->
     CHOOSE i \in 1..Len(its) : its[i].id = k /\ \A j \in (i + 1)..Len(its) : its[j].id # k]

(***************************************************************************)
(* Sibling order: children_index applied to a list of records.             *)
(***************************************************************************)
MaxSortItems == 3

SortParents == {"p", ABSENT}
SortPositions == {NoPos, IntPos(1), IntPos(2), IntPos(PosSentinel + 1)}
SortTitles == {"B", "a"}
SortRecords ==
  {Item("r", par, t, pos, EmptyHandler, ABSENT) : par \in SortParents, t \in SortTitles, pos \in SortPositions}

InitSort ==
  /\ sort_items \in SeqsUpTo(SortRecords, MaxSortItems)
  /\ by_parent = <<>>
  /\ sort_done = FALSE
  /\ ClassifyIdle /\ InlineIdle /\ CsvIdle /\ PathIdle /\ MainIdle

SortCall ==
  /\ ~sort_done
  /\ by_parent' = children_index(sort_items)
  /\ sort_done' = TRUE
  /\ UNCHANGED <<sort_items, classifyVars, inlineVars, csvVars, pathVars, mainVars>>

NextSort == SortCall
SpecSort == InitSort /\ [][NextSort]_vars

\* C3 as stated: in every children list a record without an integer position
\* comes after every sibling with one, whatever the integer; integer positions
\* ascend; siblings of equal position are in ascending title order
C3_SiblingOrder ==
  sort_done =>
    \A k \in DOMAIN by_parent :
      \A i, j \in 1..Len(by_parent[k]) :
        i < j =>
          LET a == sort_items[by_parent[k][i]]
              b == sort_items[by_parent[k][j]]
          IN /\ ~(~a.position.int /\ b.position.int)
             /\ (a.position.int /\ b.position.int) => a.position.v <= b.position.v
             /\ a.position = b.position => ~StrLess(TitleKey(b), TitleKey(a))

(***************************************************************************)
(* The text/CSV walk (export_txt.py).  A row stands for one call of walk   *)
(* that printed: the line it appended to lines and the dict it appended to *)
(* rows.  src and doc are the places in the list of the record and of the  *)
(* document child merged into it (0 when the row is no merge).             *)
(*                                                                         *)
(* node_type and the two body parsers are pure, so the renderers look      *)
(* their results up in tables made once per list: ty[i] is                 *)
(* node_type(its[i]) (RAISED when that call raises) and em[i] holds what   *)
(* the parsers find in its[i].get("body") or "".                           *)
(***************************************************************************)
RECURSIVE TypeTable(_, _)
TypeTable(its, n) == IF n = 0 THEN <<>> ELSE Append(TypeTable(its, n - 1), node_type(its[n]))

Embedded(body) ==
  [files |-> parse_embedded_files_from_body(body), links |-> parse_embedded_content_links(body)]
NoneEmbedded == [files |-> <<>>, links |-> <<>>]
RECURSIVE EmbeddedTable(_, _)
EmbeddedTable(its, n) ==
  IF n = 0 THEN <<>> ELSE Append(EmbeddedTable(its, n - 1), Embedded(OrElse(Get(its[n].body), "")))

\* str(n) of an int
RECURSIVE IntStr(_)
IntStr(n) ==
  IF n < 0 THEN "-" \o IntStr(-n)
  ELSE IF n < 10 THEN Char(Digits, n + 1)
  ELSE IntStr(n \div 10) \o Char(Digits, (n % 10) + 1)
\* a value as an f-string prints it
PyStr(v) == IF v = NULL THEN "None" ELSE IF v = JTRUE THEN "True" ELSE IF v = JFALSE THEN "False" ELSE v

\* kids.get(nid, [])
KidsOf(kds, nid) == IF nid \in DOMAIN kds THEN kds[nid] ELSE <<>>
\* kids.get(node.get("id", ""), [])
ChildrenOf(its, kds, n) == KidsOf(kds, GetDefault(its[n].id, ""))
\* FirstDoc without the break: the last c of ch with is_document_handler(c)
FirstDoc_Last(its, ch) ==
  LET hits == {k \in 1..Len(ch) : is_document_handler(its[ch[k]])}
  IN IF hits = {} THEN 0 ELSE ch[CHOOSE k \in hits : \A j \in hits : k >= j]

\* the first c of ch with is_document_handler(c), 0 when the loop finds none
FirstDoc(its, ch) ==
  LET hits == {k \in 1..Len(ch) : is_document_handler(its[ch[k]])}
  IN IF hits = {} THEN 0 ELSE ch[CHOOSE k \in hits : \A j \in hits : k <= j]
\* doc_child of a node: the first document child of an Ultra page, 0 for None
DocChild(its, kds, n) == IF is_ultra_page(its[n]) THEN FirstDoc(its, ChildrenOf(its, kds, n)) ELSE 0
\* [c for c in ch if show_bodies or node_type(c) != "UltraBody"]; node_type is only
\* called with the toggle off, and the comprehension fails when it raises
Shown(ty, show, ch) ==
  IF show THEN [ok |-> TRUE, seq |-> ch]
  ELSE IF \E k \in 1..Len(ch) : ty[ch[k]] = RAISED THEN [ok |-> FALSE, seq |-> <<>>]
  ELSE [ok |-> TRUE, seq |-> SelectSeq(ch, LAMBDA c : ty[c] # "UltraBody")]
\* ChildrenShown without the test c is doc_child
ChildrenShown_KeepDoc(its, kds, show, ty, n, doc) ==
  IF doc = 0 THEN Shown(ty, show, KidsOf(kds, GetDefault(its[n].id, "")))
  ELSE Shown(ty, show, KidsOf(kds, GetDefault(its[n].id, "")) \o KidsOf(kds, GetDefault(its[doc].id, "")))

\* the children walked under a node: of a merged node, the page's without doc_child
\* (c is doc_child) and then the document child's; else the node's own
ChildrenShown(its, kds, show, ty, n, doc) ==
  IF doc = 0 THEN Shown(ty, show, ChildrenOf(its, kds, n))
  ELSE Shown(ty, show, SelectSeq(ChildrenOf(its, kds, n), LAMBDA c : c # doc) \o ChildrenOf(its, kds, doc))

\* str(pos) if isinstance(pos, int) else ""
PosStr(node) == IF node.position.int THEN IntStr(node.position.v) ELSE ""
\* url_for_display without the test is_external_link
url_for_display_Any(node) == external_link_url(node)
\* url_for_display
url_for_display(node) == IF is_external_link(node) THEN external_link_url(node) ELSE ""

\* the line and row of a node: of a merged page (export_txt.py 44-74) when doc is
\* its document child, of any other node (export_txt.py 93-134) when doc = 0; e is
\* what the parsers found in the body the row reads
Row(its, n, doc, depth, last, t, e) ==
  LET node == its[n]
      merged == doc # 0
      extra == merged \/ t \in {"Document", "UltraBody"}
  IN [src |-> n, doc |-> doc,
      id |-> IF merged
             THEN "[" \o PyStr(GetDefault(node.id, "")) \o "," \o PyStr(GetDefault(its[doc].id, "")) \o "]"
             ELSE GetDefault(node.id, ""),
      parentId |-> GetDefault(node.parentId, ""), title |-> OrElse(Get(node.title), ""),
      handler_id |-> IF merged THEN "resource/x-bb-document" ELSE handler_id(node),
      type |-> IF merged THEN "ULTRA DOC" ELSE t,
      position |-> PosStr(node), depth |-> depth,
      web_url |-> IF merged THEN "" ELSE url_for_display(node),
      embedded_file_count |-> IF extra THEN IntStr(Len(e.files)) ELSE "",
      embedded_files |-> IF extra THEN files_csv_field(e.files) ELSE "",
      embedded_content_links |-> IF extra THEN content_links_csv_field(e.links) ELSE "",
      is_last |-> last]

\* what a call returns: the rows it appended, or ok = FALSE when it raised
Raised == [ok |-> FALSE, rows |-> <<>>]
Returned(rs) == [ok |-> TRUE, rows |-> rs]

RECURSIVE walk(_, _, _, _, _, _, _, _), WalkEach(_, _, _, _, _, _, _, _)
\* walk(node, prefix, is_last, depth).  A call deeper than the list is long can
\* only lie on a cycle of the kids lookup, which recurses until RecursionError.
walk(its, kds, show, ty, em, n, depth, last) ==
  IF depth > Len(its) \/ ty[n] = RAISED THEN Raised
  ELSE IF ~show /\ ty[n] = "UltraBody" THEN Returned(<<>>)
  ELSE Only({IF ~ch.ok THEN Raised
             ELSE Only({IF ~below.ok THEN Raised
                        ELSE Returned(<<Row(its, n, doc, depth, last, ty[n],
                                            IF doc # 0 THEN em[doc] ELSE em[n])>> \o below.rows) :
                        below \in {WalkEach(its, kds, show, ty, em, ch.seq, 1, depth + 1)}}) :
             doc \in {DocChild(its, kds, n)},
             ch \in {ChildrenShown(its, kds, show, ty, n, DocChild(its, kds, n))}})

\* for i, child in enumerate(ch): walk(child, ..., i == len(ch)-1, depth), from the k-th on
WalkEach(its, kds, show, ty, em, ch, k, depth) ==
  IF k > Len(ch) THEN Returned(<<>>)
  ELSE Only({IF ~one.ok THEN Raised
             ELSE Only({IF ~rest.ok THEN Raised ELSE Returned(one.rows \o rest.rows) :
                        rest \in {WalkEach(its, kds, show, ty, em, ch, k + 1, depth)}}) :
             one \in {walk(its, kds, show, ty, em, ch[k], depth, k = Len(ch))}})

\* draw_tree_txt: walk every root at depth 0
draw_tree_txt(its, kds, rts, show) ==
  Only({Only({WalkEach(its, kds, show, ty, em, rts, 1, 0) : em \in {EmbeddedTable(its, Len(its))}}) :
        ty \in {TypeTable(its, Len(its))}})

(***************************************************************************)
(* The HTML tree (export_html.py).  The nested <li> elements are kept as   *)
(* the sequence of their nodes in document order, each with its depth.     *)
(***************************************************************************)
\* body_source_for_node, as the place in the list of the record whose body is read
\* (0: the source is "")
body_source_for_node(its, kds, ty, n) ==
  IF ty[n] \in {"ULTRA DOC", "Document", "UltraBody"} THEN n ELSE DocChild(its, kds, n)

\* the files, and the links that are no knowledge check, of the node's body source
embedded_for_node(its, kds, ty, em, n) ==
  Only({[files |-> e.files,
         links |-> SelectSeq(e.links, LAMBDA l : Lower(OrElse(l[2], "")) # "knowledgecheck")] :
        e \in {IF body_source_for_node(its, kds, ty, n) = 0 THEN NoneEmbedded
               ELSE em[body_source_for_node(its, kds, ty, n)]}})

\* try_ultra_merge: None (doc = 0), or the merged title, document child and children
try_ultra_merge(its, kds, show, ty, n) ==
  Only({[doc |-> doc,
         title |-> IF doc = 0 THEN ""
                   ELSE OrElse(Get(its[n].title), OrElse(Get(its[doc].title), "")),
         children |-> ChildrenShown(its, kds, show, ty, n, doc)] :
        doc \in {DocChild(its, kds, n)}})

\* the <li> of a node: its chip, title, URL suffix and extras
HtmlNode(its, n, depth, t, m, leaf, emb) ==
  LET merged == m.doc # 0
      extras == merged \/ t \in {"ULTRA DOC", "Document"} \/ is_ultra_page(its[n])
      fs == IF extras THEN emb.files ELSE <<>>
      ls == IF extras THEN emb.links ELSE <<>>
  IN [src |-> n, doc |-> m.doc, chip |-> IF merged THEN "ULTRA DOC" ELSE t,
      title |-> IF merged THEN m.title ELSE Strip(OrElse(Get(its[n].title), "")),
      \* a leaf with extras is printed without its URL suffix
      url |-> IF merged \/ (leaf /\ (fs # <<>> \/ ls # <<>>)) THEN "" ELSE url_for_display(its[n]),
      files |-> fs, links |-> ls, depth |-> depth]

RECURSIVE render_node(_, _, _, _, _, _, _), RenderEach(_, _, _, _, _, _, _, _)
\* render_node(node), with the same bound on the depth as walk
render_node(its, kds, show, ty, em, n, depth) ==
  IF depth > Len(its) \/ ty[n] = RAISED THEN Raised
  ELSE Only({IF ~m.children.ok THEN Raised
             ELSE Only({IF ~below.ok THEN Raised
                        ELSE Returned(<<HtmlNode(its, n, depth, ty[n], m, m.children.seq = <<>>, emb)>>
                                      \o below.rows) :
                        below \in {RenderEach(its, kds, show, ty, em, m.children.seq, 1, depth + 1)},
                        emb \in {embedded_for_node(its, kds, ty, em, n)}}) :
             m \in {try_ultra_merge(its, kds, show, ty, n)}})

\* render_node(c) for each c of ch, from the k-th on
RenderEach(its, kds, show, ty, em, ch, k, depth) ==
  IF k > Len(ch) THEN Returned(<<>>)
  ELSE Only({IF ~one.ok THEN Raised
             ELSE Only({IF ~rest.ok THEN Raised ELSE Returned(one.rows \o rest.rows) :
                        rest \in {RenderEach(its, kds, show, ty, em, ch, k + 1, depth)}}) :
             one \in {render_node(its, kds, show, ty, em, ch[k], depth)}})

\* build_html: [render_node(r) for r in roots]
build_html(its, kds, rts, show) ==
  Only({Only({RenderEach(its, kds, show, ty, em, rts, 1, 0) : em \in {EmbeddedTable(its, Len(its))}}) :
        ty \in {TypeTable(its, Len(its))}})

(***************************************************************************)
(* main (course_map.py): the loop over the course ids.                     *)
(***************************************************************************)
\* it in roots: list membership compares the dicts by value
InRoots_Never(its, rts, k) == FALSE

InRoots(its, rts, k) == \E j \in 1..Len(rts) : its[rts[j]] = its[k]

\* IsOrphan that finds no orphan
IsOrphan_Never(x, ids) == FALSE
\* pid and pid not in by_id
IsOrphan(x, ids) == Truthy(Get(x.parentId)) /\ x.parentId \notin DOMAIN ids

\* the orphan loop over items, from the k-th record on
RECURSIVE OrphansAppended(_, _, _, _)
OrphansAppended(its, ids, rts, k) ==
  IF k > Len(its) THEN rts
  ELSE OrphansAppended(its, ids,
                       IF IsOrphan(its[k], ids) /\ ~InRoots(its, rts, k) THEN Append(rts, k) ELSE rts,
                       k + 1)

\* the course the loop turns to after an exception was reported: the next one
AfterExcept_Abort(i) == Len(course_ids) + 1

AfterExcept(i) == i + 1

\* the loop variable moves on to course i, or the loop has ended
TurnTo(i) ==
  /\ ci' = i
  /\ pc' = IF i > Len(course_ids) THEN "done" ELSE "fetch"

\* except Exception as e: print(f"{cid}: ERROR ...", file=sys.stderr)
Except ==
  /\ errors' = Append(errors, course_ids[ci])
  /\ TurnTo(AfterExcept(ci))

\* the step after txt: the outputs still asked for, in the order main writes them
AfterTxt == IF want.csv THEN "write_csv" ELSE IF want.html THEN "html" ELSE "next"
AfterCsv == IF want.html THEN "html" ELSE "next"
\* the loop body goes on at step p, or ends and the loop takes the next course
GoOn(p) == IF p = "next" THEN TurnTo(ci + 1) ELSE ci' = ci /\ pc' = p

\* items = fetch_all_contents(session, host, cid)
FetchContents ==
  /\ pc = "fetch"
  /\ IF remote[ci].fails
     THEN Except /\ UNCHANGED <<items, written>>
     ELSE items' = remote[ci].items /\ ci' = ci /\ pc' = "index" /\ UNCHANGED outVars
  /\ UNCHANGED <<by_id, kids, roots, rows, html, batchVars>>
  /\ UNCHANGED <<classifyVars, inlineVars, csvVars, pathVars, sortVars>>

\* by_id = index_by_id(items); kids = children_index(items); roots = kids.get("", [])
IndexContents ==
  /\ pc = "index"
  /\ by_id' = index_by_id(items)
  /\ IF SortRaises(items)
     THEN Except /\ UNCHANGED <<kids, roots, written>>
     ELSE /\ \E kds \in {children_index(items)} : kids' = kds /\ roots' = KidsOf(kds, "")
          /\ ci' = ci /\ pc' = "orphans"
          /\ UNCHANGED outVars
  /\ UNCHANGED <<items, rows, html, batchVars>>
  /\ UNCHANGED <<classifyVars, inlineVars, csvVars, pathVars, sortVars>>

\* the orphan loop; roots is the list kids[""] itself when that key exists.  Then the
\* course header is resolved (no exception leaves it) and rows = []
HandleOrphans ==
  /\ pc = "orphans"
  /\ \E rts \in {OrphansAppended(items, by_id, roots, 1)} :
       /\ roots' = rts
       /\ kids' = IF "" \in DOMAIN kids THEN [kids EXCEPT ![""] = rts] ELSE kids
  /\ rows' = <<>>
  /\ pc' = IF want.txt \/ want.csv THEN "draw" ELSE "html"
  /\ UNCHANGED <<ci, items, by_id, html, batchVars, outVars>>
  /\ UNCHANGED <<classifyVars, inlineVars, csvVars, pathVars, sortVars>>

\* the names compute_path collects from cur upwards, ids mapping an id to the place of
\* its record in its; the titles of the records that are rendered are a str or None
RECURSIVE PathNames(_, _, _, _)
PathNames(its, ids, c, sn) ==
  IF ~LoopTest(c, sn) THEN <<>>
  ELSE <<LET t == Strip(OrElse(Get(c.rec.title), "")) IN IF t # "" THEN t ELSE handler_id(c.rec)>>
       \o PathNames(its, ids,
                    IF Truthy(Get(c.rec.parentId)) /\ c.rec.parentId \in DOMAIN ids
                    THEN Some(its[ids[c.rec.parentId]]) ELSE None,
                    sn \cup {Get(c.rec.id)})
\* compute_path(item, by_id)
compute_path(its, ids, node) == Join(" / ", Reverse(PathNames(its, ids, Some(node), {})))
\* "path": compute_path(node, by_id), the field of each row that reads by_id
WithPaths(its, ids, rs) ==
  [k \in 1..Len(rs) |->
     [f \in DOMAIN rs[k] \cup {"path"} |->
        IF f = "path" THEN compute_path(its, ids, its[rs[k].src]) ELSE rs[k][f]]]

\* txt, rows = draw_tree_txt(...)
DrawTree ==
  /\ pc = "draw"
  /\ \E r \in {draw_tree_txt(items, kids, roots, show_bodies)} :
        IF r.ok
        THEN rows' = WithPaths(items, by_id, r.rows) /\ GoOn(IF want.txt THEN "write_txt" ELSE "write_csv") /\ UNCHANGED outVars
        ELSE Except /\ UNCHANGED <<rows, written>>
  /\ UNCHANGED <<items, by_id, kids, roots, html, batchVars>>
  /\ UNCHANGED <<classifyVars, inlineVars, csvVars, pathVars, sortVars>>

\* CSV_FIELDS, the columns of the CSV file
CSV_FIELDS ==
  <<"course_id", "id", "parentId", "title", "handler_id", "type", "availability", "position", "depth",
    "path", "web_url", "embedded_file_count", "embedded_files", "embedded_content_links",
    "inline_urls", "inline_videostudio">>
\* the columns that hold what the extractors found in a body
ExtractorColumns ==
  {CSV_FIELDS[i] : i \in 1..Len(CSV_FIELDS)} \cap
    {"embedded_file_count", "embedded_files", "embedded_content_links", "inline_urls", "inline_videostudio"}
\* write_csv_map, for the extractor columns: "" if r.get(k) is None else r.get(k)
write_csv_map(rs) ==
  [i \in 1..Len(rs) |-> [k \in ExtractorColumns |-> IF k \in DOMAIN rs[i] THEN rs[i][k] ELSE ""]]

\* one output file is written, or open/write raises OSError; of the CSV file the table
\* is kept, the text and the HTML document are rows and html as they stand
WriteFile(kind, then) ==
  /\ \E fails \in BOOLEAN :
       IF fails THEN Except /\ UNCHANGED written
       ELSE /\ written' = Append(written, [course |-> ci, kind |-> kind,
                                           table |-> IF kind = "csv" THEN write_csv_map(rows) ELSE <<>>])
            /\ GoOn(then)
            /\ UNCHANGED errors
  /\ UNCHANGED <<items, by_id, kids, roots, rows, html, batchVars>>
  /\ UNCHANGED <<classifyVars, inlineVars, csvVars, pathVars, sortVars>>

WriteTxt == pc = "write_txt" /\ WriteFile("txt", AfterTxt)
WriteCsv == pc = "write_csv" /\ WriteFile("csv", AfterCsv)

\* html_doc = build_html(...)
BuildHtml ==
  /\ pc = "html"
  /\ \E r \in {build_html(items, kids, roots, show_bodies)} :
        IF r.ok
        THEN html' = r.rows /\ GoOn("write_html") /\ UNCHANGED outVars
        ELSE Except /\ UNCHANGED <<html, written>>
  /\ UNCHANGED <<items, by_id, kids, roots, rows, batchVars>>
  /\ UNCHANGED <<classifyVars, inlineVars, csvVars, pathVars, sortVars>>

WriteHtml == pc = "write_html" /\ WriteFile("html", "next")

Next ==
  \/ FetchContents
  \/ IndexContents
  \/ HandleOrphans
  \/ DrawTree
  \/ WriteTxt
  \/ WriteCsv
  \/ BuildHtml
  \/ WriteHtml

\* the state when the loop starts on a batch
Batch(cs, rm, sb, w) ==
  /\ course_ids = cs /\ remote = rm /\ show_bodies = sb /\ want = w
  /\ ci = 1 /\ pc = (IF cs = <<>> THEN "done" ELSE "fetch")
  /\ items = <<>> /\ by_id = <<>> /\ kids = <<>> /\ roots = <<>>
  /\ rows = <<>> /\ html = <<>> /\ written = <<>> /\ errors = <<>>
  /\ ClassifyIdle /\ InlineIdle /\ CsvIdle /\ PathIdle /\ SortIdle

\* the output selections: everything, or the default (HTML alone)
AllOutputs == [txt |-> TRUE, csv |-> TRUE, html |-> TRUE]
WantSets == {AllOutputs, [txt |-> FALSE, csv |-> FALSE, html |-> TRUE]}
Served(its) == [fails |-> FALSE, items |-> its]
Unreachable == [fails |-> TRUE, items |-> <<>>]

(***************************************************************************)
(* One course holding a folder or page with children.                      *)
(***************************************************************************)
BodyOne == "<a data-bbfile=\"{&quot;linkName&quot;:&quot;one.pdf&quot;}\">"
BodyTwo == "<a data-bbfile=\"{&quot;linkName&quot;:&quot;2.png&quot;}\"><a data-content-link=\"_9\" data-content-link-type=\"doc\">"
\* the top record: a folder whose isBbPage flag is true, false, null or absent
TopRecord(flag) == Item("p", ABSENT, "Top", IntPos(1), PageHandler(flag), ABSENT)
DocBody == Item("d", "p", "ultraDocumentBody", IntPos(2), Handler("resource/x-bb-document"), BodyOne)
DocOther(pos) == Item("e", "p", "Notes", IntPos(pos), Handler("resource/x-bb-document"), BodyTwo)
FileChild ==
  Item("f", "p", "Slides", IntPos(4),
       [FileHandler("resource/x-bb-file", "application/pdf") EXCEPT !.launchUrl = "https://f.org/s.pdf"], ABSENT)
LinkGrandchild ==
  Item("g", "d", "Site", IntPos(1), [Handler("resource/x-bb-externallink") EXCEPT !.url = "https://x.org"], ABSENT)
\* a second record of the top record's id, no page
SameIdFolder == Item("p", ABSENT, "Again", IntPos(5), Handler("resource/x-bb-folder"), ABSENT)
NullHandlerId == Item("n", "p", "Broken", IntPos(6), Handler(NULL), ABSENT)
DanglingChild == Item("o", "zz", "Lost", NoPos, Handler("resource/x-bb-file"), ABSENT)
NoIdChild == Item(ABSENT, "p", "Nameless", IntPos(7), Handler("resource/x-bb-folder"), ABSENT)
\* a document body whose parent is not in the course, with a child of its own
OrphanBody == Item("u", "zz", "documentBody", NoPos, Handler("resource/x-bb-document"), BodyOne)
OrphanBodyChild == Item("v", "u", "Under", IntPos(1), Handler("resource/x-bb-folder"), ABSENT)
\* a page without a title
UntitledPage == Item("p", ABSENT, "", IntPos(1), PageHandler(JTRUE), ABSENT)

TopFlags == {JTRUE, JFALSE, NULL, ABSENT}
DocChoices == {<<>>, <<DocBody>>, <<DocBody, DocOther(3)>>, <<DocOther(1), DocBody>>}
OtherChoices ==
  {<<>>, <<FileChild>>, <<LinkGrandchild>>, <<FileChild, LinkGrandchild>>, <<SameIdFolder>>,
   <<NullHandlerId>>, <<DanglingChild>>, <<NoIdChild>>, <<OrphanBody, OrphanBodyChild>>}
TopChoices == {TopRecord(flag) : flag \in TopFlags} \cup {UntitledPage}
Forests == {docs \o <<top>> \o others : top \in TopChoices, docs \in DocChoices, others \in OtherChoices}

Init ==
  \E its \in Forests, sb \in BOOLEAN, w \in WantSets : Batch(<<"c1">>, <<Served(its)>>, sb, w)

Spec == Init /\ [][Next]_vars

\* draw_tree_txt has returned the rows of the course in hand
RowsDrawn == pc \in {"write_txt", "write_csv"}
\* build_html has returned the tree of the course in hand
HtmlBuilt == pc = "write_html"
\* the entries of a rendered sequence (rows or HTML nodes) that are the children of its
\* k-th entry: one level deeper, after it, before the next entry that is not below it
ChildEntries(out, k) ==
  {j \in (k + 1)..Len(out) :
     out[j].depth = out[k].depth + 1 /\ \A i \in (k + 1)..j : out[i].depth > out[k].depth}
\* the records a sequence of entries stands for, in order
RECURSIVE SrcOf(_, _)
SrcOf(out, js) ==
  IF js = {} THEN <<>>
  ELSE LET j == CHOOSE x \in js : \A y \in js : x <= y
       IN <<out[j].src>> \o SrcOf(out, js \ {j})
\* every record has an id of its own, a non-empty string
UniqueIds(its) ==
  /\ \A i \in 1..Len(its) : IsStr(its[i].id) /\ its[i].id # ""
  /\ \A i, j \in 1..Len(its) : i # j => its[i].id # its[j].id
\* the record is a folder with isBbPage true that has a document-handler child: that child
PairedDoc(n) ==
  IF handler_id(items[n]) = "resource/x-bb-folder" /\ HandlerOrEmpty(items[n]).isBbPage = JTRUE
  THEN FirstDoc(items, KidsOf(kids, GetDefault(items[n].id, "")))
  ELSE 0
\* the k-th entry of out is the one merged entry of a pair: it carries the document child d,
\* d is no child entry of it, and with ids of their own d is no entry at all and the page
\* has no second entry
OneEntryForPair(out, k, d) ==
  /\ out[k].doc = d
  /\ \A j \in ChildEntries(out, k) : out[j].src # d
  /\ UniqueIds(items) =>
       /\ \A j \in 1..Len(out) : out[j].src # d
       /\ \A j \in 1..Len(out) : out[j].src = out[k].src => j = k

\* C5: a rendered page record (folder handler, isBbPage true) with a document-handler
\* child yields one row and one HTML node for the pair, of id "[pageId,docChildId]" and
\* type ULTRA DOC, whose embedded files are those of the document child's body; the
\* document child is no row or node of its own
C5_MergedPair ==
  /\ RowsDrawn =>
       \A k \in 1..Len(rows) :
         LET n == rows[k].src
             d == PairedDoc(n)
         IN d # 0 =>
              /\ OneEntryForPair(rows, k, d)
              /\ rows[k].id = "[" \o PyStr(Get(items[n].id)) \o "," \o PyStr(Get(items[d].id)) \o "]"
              /\ rows[k].type = "ULTRA DOC"
              /\ rows[k].embedded_files =
                   files_csv_field(parse_embedded_files_from_body(OrElse(Get(items[d].body), "")))
  /\ HtmlBuilt =>
       \A k \in 1..Len(html) :
         LET n == html[k].src
             d == PairedDoc(n)
         IN d # 0 =>
              /\ OneEntryForPair(html, k, d)
              /\ html[k].chip = "ULTRA DOC"
              /\ html[k].files = parse_embedded_files_from_body(OrElse(Get(items[d].body), ""))

\* a page with two document children and a file has been rendered both ways: the pair
\* is one entry carrying the first document child's file
C5_Witness ==
  /\ HtmlBuilt /\ want.txt /\ show_bodies
  /\ Len(rows) = 3 /\ Len(html) = 3
  /\ rows[1].id = "[p,e]" /\ rows[1].embedded_files = "2.png||" /\ rows[2].id = "d"
  /\ html[1].doc # 0 /\ html[1].files # <<>> /\ html[3].chip = "PDF"

\* C6: a rendered record whose isBbPage flag is false or absent is never merged: its
\* row and HTML node carry its own id and type, and its children that the UltraBody
\* toggle does not hide, document children included, are each a child entry
C6_NoMergeWithoutFlag ==
  /\ RowsDrawn =>
       \A k \in 1..Len(rows) :
         LET n == rows[k].src
         IN HandlerOrEmpty(items[n]).isBbPage \in {JFALSE, ABSENT} =>
              /\ rows[k].doc = 0
              /\ rows[k].id = GetDefault(items[n].id, "")
              /\ rows[k].type = node_type(items[n])
              /\ SrcOf(rows, ChildEntries(rows, k)) =
                   SelectSeq(KidsOf(kids, GetDefault(items[n].id, "")),
                             LAMBDA c : show_bodies \/ node_type(items[c]) # "UltraBody")
  /\ HtmlBuilt =>
       \A k \in 1..Len(html) :
         LET n == html[k].src
         IN HandlerOrEmpty(items[n]).isBbPage \in {JFALSE, ABSENT} =>
              /\ html[k].doc = 0
              /\ html[k].chip = node_type(items[n])
              /\ SrcOf(html, ChildEntries(html, k)) =
                   SelectSeq(KidsOf(kids, GetDefault(items[n].id, "")),
                             LAMBDA c : show_bodies \/ node_type(items[c]) # "UltraBody")

\* a folder whose isBbPage is false has been rendered both ways with its two document
\* children as rows of their own
C6_Witness ==
  /\ HtmlBuilt /\ want.txt /\ show_bodies
  /\ HandlerOrEmpty(items[rows[1].src]).isBbPage = JFALSE
  /\ Len(rows) = 3 /\ rows[1].id = "p" /\ rows[1].type = "Folder"
  /\ rows[2].id = "d" /\ rows[2].type = "UltraBody" /\ rows[3].id = "e"
  /\ Len(html) = 3 /\ html[1].chip = "Folder" /\ html[2].chip = "UltraBody"

(***************************************************************************)
(* Orphans: one course holding any short list of records.                  *)
(***************************************************************************)
MaxItems == 3

OrphanIds == {"a", ABSENT}
OrphanParents == {ABSENT, "a", "zz", JTRUE}
OrphanRecords ==
  {Item(id, par, "T", NoPos, Handler("resource/x-bb-folder"), ABSENT) : id \in OrphanIds, par \in OrphanParents}

\* the lists in which no id is given twice
OrphanLists ==
  {its \in SeqsUpTo(OrphanRecords, MaxItems) :
     \A i, j \in 1..Len(its) : (i # j /\ IsStr(its[i].id)) => its[i].id # its[j].id}

InitOrphans ==
  \E its \in OrphanLists : Batch(<<"c1">>, <<Served(its)>>, TRUE, AllOutputs)

SpecOrphans == InitOrphans /\ [][Next]_vars

\* the orphan loop of the course in hand has ended
OrphansHandled == pc \in {"draw", "write_txt", "write_csv", "html", "write_html"}

\* C7: after the orphan handling, every record whose parentId is non-empty and no key
\* of the id-to-record map is in the roots list exactly once
C7_OrphanOnce ==
  OrphansHandled =>
    \A k \in 1..Len(items) :
      (Truthy(Get(items[k].parentId)) /\ items[k].parentId \notin DOMAIN by_id) =>
        Cardinality({j \in 1..Len(roots) : roots[j] = k}) = 1

(***************************************************************************)
(* The course loop: a list of courses, each answering the fetch in its own *)
(* way, under every pattern of failing writes.  The loop runs on as long   *)
(* as it has a step to take.                                               *)
(***************************************************************************)
MaxCourses == 2

\* the course list of n ids: the ids only label the reports, so two names in turn do
CourseList(n) == [i \in 1..n |-> IF i % 2 = 1 THEN "c1" ELSE "c2"]
\* a document child without a body
DocPlain == Item("d", "p", "ultraDocumentBody", IntPos(2), Handler("resource/x-bb-document"), ABSENT)
\* a sibling of the same position whose title is a bool, not a str
BoolTitle == Item("t", "p", JTRUE, IntPos(2), Handler("resource/x-bb-folder"), ABSENT)
\* what the server answers for a course: nothing, a page that renders, a record that makes
\* node_type raise, two siblings that make the sort raise
Answers ==
  { Unreachable,
    Served(<<TopRecord(JTRUE), DocPlain>>),
    Served(<<TopRecord(JFALSE), NullHandlerId>>),
    Served(<<TopRecord(JFALSE), DocPlain, BoolTitle>>) }

InitLoop ==
  \E n \in 0..MaxCourses, w \in WantSets :
    \E rm \in [1..n -> Answers] : Batch(CourseList(n), rm, TRUE, w)

SpecLoop == InitLoop /\ [][Next]_vars /\ WF_vars(Next)

\* the output kinds asked for
Wanted == {k \in {"txt", "csv", "html"} : want[k]}
\* every output asked for has been written for the i-th course, once
FullyWritten(i) ==
  \A k \in Wanted : Cardinality({j \in 1..Len(written) : written[j].course = i /\ written[j].kind = k}) = 1
\* the ids of the courses from the i-th on that were not fully written, in list order
RECURSIVE Unwritten(_)
Unwritten(i) ==
  IF i > Len(course_ids) THEN <<>>
  ELSE (IF FullyWritten(i) THEN <<>> ELSE <<course_ids[i]>>) \o Unwritten(i + 1)

\* C10: every course of the list is attempted, in list order, however the others fail: the
\* loop takes the courses one by one and ends, an error report is one line labelled with
\* the course that failed and is followed by the next course, and when the loop has ended
\* the reported courses are exactly those not fully written, each reported once
C10_CourseIsolation ==
  /\ \A i \in 1..MaxCourses : (i <= Len(course_ids)) => <>(ci = i /\ pc = "fetch")
  /\ <>(pc = "done")
  /\ [][ci' = ci \/ (ci' = ci + 1 /\ ci <= Len(course_ids))]_vars
  /\ [][errors' # errors => (errors' = Append(errors, course_ids[ci]) /\ ci' = ci + 1)]_vars
  /\ [](pc = "done" => (ci = Len(course_ids) + 1 /\ errors = Unwritten(1)))

\* the loop has ended on two courses: the first failed while rendering and was reported,
\* the second has its three files
C10_Witness ==
  /\ pc = "done" /\ Len(course_ids) = 2 /\ want = AllOutputs
  /\ remote[1] = Served(<<TopRecord(JFALSE), NullHandlerId>>)
  /\ errors = <<course_ids[1]>>
  /\ FullyWritten(2) /\ ~FullyWritten(1)

(***************************************************************************)
(* The UltraBody toggle, the merged node and the tree index, on the        *)
(* courses of Spec and SpecOrphans.                                        *)
(***************************************************************************)
\* C11: with the show-UltraBody toggle disabled no rendered entry, row or HTML node, at
\* any level, stands for a record classified UltraBody
C11_HiddenBodies ==
  ~show_bodies =>
    /\ RowsDrawn => \A k \in 1..Len(rows) : node_type(items[rows[k].src]) # "UltraBody"
    /\ HtmlBuilt => \A k \in 1..Len(html) : node_type(items[html[k].src]) # "UltraBody"

\* the CSV file of the course in hand has been written: its table
CsvWritten == {j \in 1..Len(written) : written[j].kind = "csv" /\ written[j].course = ci}
\* the body an entry reads: the document child's of a merged entry, else the record's own
BodySource(e) == OrElse(Get(items[IF e.doc # 0 THEN e.doc ELSE e.src].body), "")

\* C12: the CSV row of every rendered node of a document type (a record classified
\* ULTRA DOC or UltraBody, a merged page) carries what the extractors find in the
\* node's body source: the embedded files and their count, the embedded content links
\* and the inline URLs (the Video Studio column is left out of this statement)
C12_ExtractorColumns ==
  (pc \in {"html", "write_html"} /\ CsvWritten # {}) =>
    \A j \in CsvWritten : \A i \in 1..Len(rows) :
      (rows[i].doc # 0 \/ node_type(items[rows[i].src]) \in {"ULTRA DOC", "UltraBody"}) =>
        LET body == BodySource(rows[i])
            line == written[j].table[i]
        IN /\ line.embedded_files = files_csv_field(parse_embedded_files_from_body(body))
           /\ line.embedded_file_count = IntStr(Len(parse_embedded_files_from_body(body)))
           /\ line.embedded_content_links = content_links_csv_field(parse_embedded_content_links(body))
           /\ line.inline_urls = inline_urls_csv_field(parse_inline_urls(body))

(***************************************************************************)
(* File lines: the list of embedded files of one node as the text tree     *)
(* (format_files_for_tree), the HTML tree (files_to_badges) and the CSV    *)
(* row (files_csv_field) show it, under the limit main hands down.         *)
(***************************************************************************)
MaxListed == 3
MaxLimit == 2

\* --tree-file-limit is type=int: any integer, negative ones too
TreeFileLimits == (-1)..MaxLimit
ListedFiles ==
  {[name |-> "a.pdf", mime |-> "application/pdf", render |-> "Attachment"],
   [name |-> "b.png", mime |-> "image/png", render |-> ""]}

InitLines ==
  /\ files \in SeqsUpTo(ListedFiles, MaxListed)
  /\ field = "" /\ csv_done = FALSE
  /\ args \in [no_tree_truncate : BOOLEAN, tree_file_limit : TreeFileLimits]
  /\ tree_limit = [none |-> TRUE, v |-> 0] /\ limit_pc = "args"
  /\ tree_line = "" /\ tree_done = FALSE /\ badges = <<>> /\ badges_done = FALSE
  /\ ClassifyIdle /\ InlineIdle /\ PathIdle /\ SortIdle /\ MainIdle

\* tree_limit = None if args.no_tree_truncate else args.tree_file_limit
ResolveLimit ==
  /\ limit_pc = "args"
  /\ tree_limit' = IF args.no_tree_truncate THEN [none |-> TRUE, v |-> 0]
                   ELSE [none |-> FALSE, v |-> args.tree_file_limit]
  /\ limit_pc' = "set"
  /\ UNCHANGED <<files, field, csv_done, args, tree_line, tree_done, badges, badges_done>>
  /\ UNCHANGED <<classifyVars, inlineVars, pathVars, sortVars, mainVars>>

\* seq[:n] of a list
SliceTo(seq, n) ==
  IF n >= 0 THEN SubSeq(seq, 1, IF n < Len(seq) THEN n ELSE Len(seq))
  ELSE SubSeq(seq, 1, IF Len(seq) + n > 0 THEN Len(seq) + n ELSE 0)

\* the character U+2026 that opens the marker, written with three dots
Ellipsis == "..."
\* f"... (+{extra} more)"
MoreMarker(extra) == Ellipsis \o " (+" \o IntStr(extra) \o " more)"

\* f"{f.get('name','')} ({render}, {kind})" for each file
FileParts(fs) ==
  [i \in 1..Len(fs) |->
     GetDefault(fs[i].name, "") \o " ("
     \o OrElse(Lower(OrElse(GetDefault(fs[i].render, ""), "")), "inline") \o ", "
     \o mime_family(GetDefault(fs[i].mime, "")) \o ")"]

\* if limit is not None and len(parts) > limit: parts[:limit] + [marker]
Truncate(parts, limit) ==
  IF ~limit.none /\ Len(parts) > limit.v
  THEN Append(SliceTo(parts, limit.v), MoreMarker(Len(parts) - limit.v))
  ELSE parts

format_files_for_tree(fs, limit) ==
  Only({IF parts = <<>> THEN "" ELSE "Files: " \o Join("; ", parts) :
          parts \in {Truncate(FileParts(fs), limit)}})

\* [f.get("name", "") for f in files if f.get("name")]
FileNames(fs) == SelectSeq([i \in 1..Len(fs) |-> GetDefault(fs[i].name, "")], LAMBDA nm : nm # "")

\* the texts of the badge spans, in order; no files, no block at all
files_to_badges(fs, limit) ==
  IF fs = <<>> THEN <<>> ELSE Truncate(FileNames(fs), limit)

FormatTree ==
  /\ limit_pc = "set" /\ ~tree_done
  \* if files: print_helper(prefix, is_last, format_files_for_tree(files, tree_file_limit))
  /\ tree_line' = IF files = <<>> THEN "" ELSE format_files_for_tree(files, tree_limit)
  /\ tree_done' = TRUE
  /\ UNCHANGED <<files, field, csv_done, args, tree_limit, limit_pc, badges, badges_done>>
  /\ UNCHANGED <<classifyVars, inlineVars, pathVars, sortVars, mainVars>>

FilesToBadges ==
  /\ limit_pc = "set" /\ ~badges_done
  /\ badges' = files_to_badges(files, tree_limit)
  /\ badges_done' = TRUE
  /\ UNCHANGED <<files, field, csv_done, args, tree_limit, limit_pc, tree_line, tree_done>>
  /\ UNCHANGED <<classifyVars, inlineVars, pathVars, sortVars, mainVars>>

NextLines == ResolveLimit \/ FormatTree \/ FilesToBadges \/ EncodeFiles
SpecLines == InitLines /\ [][NextLines]_vars

\* the file line that shows the first k parts of the list and a marker for n more
LineShowing(fs, k, n) ==
  "Files: " \o Join("; ", Append(SubSeq(FileParts(fs), 1, k), MoreMarker(n)))
\* the file line that shows every file and no marker
LineOfAll(fs) == IF fs = <<>> THEN "" ELSE "Files: " \o Join("; ", FileParts(fs))
\* the number of "|" separators in a CSV field
Bars(str) == Cardinality({i \in 1..Len(str) : Char(str, i) = "|"})

\* C13: for every integer limit the command line accepts and every file list,
\* a truncated file line (text tree and HTML badges alike) shows k files, k no
\* more than the limit, then one "+N more" marker with k + N = the number of
\* files (a node without files has no file line to truncate); a list of at
\* most limit files, or any list when the limit is unset, is shown whole
\* without a marker; the CSV field covers every file whatever
\* the limit.
C13_Truncation ==
  /\ (tree_done /\ (tree_limit.none \/ Len(files) <= tree_limit.v)) => tree_line = LineOfAll(files)
  /\ (tree_done /\ files # <<>> /\ ~tree_limit.none /\ Len(files) > tree_limit.v) =>
       \E k \in 0..Len(files) :
         /\ k <= tree_limit.v
         /\ tree_line = LineShowing(files, k, Len(files) - k)
  /\ (badges_done /\ (tree_limit.none \/ Len(files) <= tree_limit.v)) => badges = FileNames(files)
  /\ (badges_done /\ files # <<>> /\ ~tree_limit.none /\ Len(files) > tree_limit.v) =>
       \E k \in 0..Len(files) :
         /\ k <= tree_limit.v
         /\ badges = Append(SubSeq(FileNames(files), 1, k), MoreMarker(Len(files) - k))
  /\ csv_done => (field = files_csv_field(files) /\ Bars(field) = 2 * Len(files))

(***************************************************************************)
(* The merged page node: its title and its children.                       *)
(***************************************************************************)
\* the title a merged node of page n and document child d is to show
MergedTitle(n, d) == OrElse(Get(items[n].title), OrElse(Get(items[d].title), ""))

\* C14: in the text and CSV rendering and in the HTML rendering alike, the
\* title of a merged page node is the page record's title or, when that is
\* empty, the title of the document-body child.
C14_MergedTitle ==
  /\ RowsDrawn =>
       \A k \in 1..Len(rows) :
         PairedDoc(rows[k].src) # 0 => rows[k].title = MergedTitle(rows[k].src, PairedDoc(rows[k].src))
  /\ HtmlBuilt =>
       \A k \in 1..Len(html) :
         PairedDoc(html[k].src) # 0 => html[k].title = MergedTitle(html[k].src, PairedDoc(html[k].src))

\* the records of ch that the UltraBody toggle lets through
NotHidden(ch) == SelectSeq(ch, LAMBDA c : show_bodies \/ node_type(items[c]) # "UltraBody")
\* d is the first document-handler record among the children ch
IsFirstDocOf(d, ch) ==
  \E k \in 1..Len(ch) :
    /\ ch[k] = d /\ is_document_handler(items[d])
    /\ \A j \in 1..(k - 1) : ~is_document_handler(items[ch[j]])
\* the children a merged node of page n and document child d is to show
MergedChildren(n, d) ==
  NotHidden(SelectSeq(ChildrenOf(items, kids, n), LAMBDA c : c # d)) \o NotHidden(ChildrenOf(items, kids, d))
NoRepeat(seq) == \A i, j \in 1..Len(seq) : seq[i] = seq[j] => i = j
\* the k-th entry of out, a merged node, has the children the claim describes
MergedChildrenOf(out, k) ==
  LET n == out[k].src
      d == out[k].doc
  IN /\ IsFirstDocOf(d, ChildrenOf(items, kids, n))
     /\ SrcOf(out, ChildEntries(out, k)) = MergedChildren(n, d)
     /\ UniqueIds(items) => NoRepeat(MergedChildren(n, d))

\* C15: the children rendered under a merged page node are the page's
\* children in sibling order without the swallowed document child (the first
\* document-handler child in sibling order), then the document child's own
\* children in sibling order; with the UltraBody toggle off the children
\* classified UltraBody are dropped from both parts; no child appears twice.
C15_MergedChildren ==
  /\ RowsDrawn => \A k \in 1..Len(rows) : rows[k].doc # 0 => MergedChildrenOf(rows, k)
  /\ HtmlBuilt => \A k \in 1..Len(html) : html[k].doc # 0 => MergedChildrenOf(html, k)

\* a page with two document children, a file and a link below the first
\* document has been rendered both ways with the toggle on: under the merged
\* node come the second document, the file, then the link
C15_Witness ==
  /\ HtmlBuilt /\ want.txt /\ show_bodies
  /\ Len(rows) = 4 /\ rows[1].id = "[p,d]"
  /\ <<rows[2].id, rows[3].id, rows[4].id>> = <<"e", "f", "g">>
  /\ ChildEntries(rows, 1) = {2, 3, 4}
  /\ Len(html) = 4 /\ html[1].doc # 0 /\ ChildEntries(html, 1) = {2, 3, 4}
  /\ SrcOf(html, {2, 3, 4}) = SrcOf(rows, {2, 3, 4})

(***************************************************************************)
(* The classifier's rule order and the file sub-kinds.                     *)
(***************************************************************************)
\* the pattern of the r-th classification rule, on a lower-cased handler id
RuleMatches(r, h) ==
  CASE r = 1 -> StartsWith(h, "resource/x-bb-document")
    [] r = 2 -> Contains(h, "x-bb-lesson") \/ Contains(h, "learningmodule")
                \/ Contains(h, "learning-module") \/ (Contains(h, "learning") /\ Contains(h, "module"))
    [] r = 3 -> Contains(h, "folder")
    [] r = 4 -> Contains(h, "externallink")
    [] r = 5 -> Contains(h, "courselink")
    [] r = 6 -> Contains(h, "file")
    [] r = 7 -> Contains(h, "asmt-survey-link")
    [] r = 8 -> Contains(h, "asmt-test-link") \/ Contains(h, "assignment")
    [] r = 9 -> Contains(h, "plugin-scormengine")
    [] r = 10 -> Contains(h, "x-bb-blti-link") \/ Contains(h, "bltiplacement")
\* the tags the r-th rule can give
RuleTags(r) ==
  CASE r = 1 -> {"UltraBody", "ULTRA DOC"}
    [] r = 2 -> {"MODULE"}
    [] r = 3 -> {"Folder"}
    [] r = 4 -> {"Link"}
    [] r = 5 -> {"COURSE LINK"}
    [] r = 6 -> FileTypes
    [] r = 7 -> {"FORM"}
    [] r = 8 -> {"TEST/ASSIGNMENT"}
    [] r = 9 -> {"SCORM"}
    [] r = 10 -> {"LTI"}
MatchingRules(h) == {r \in 1..10 : RuleMatches(r, h)}
LowestRule(h) == CHOOSE r \in MatchingRules(h) : \A q \in MatchingRules(h) : r <= q
HasVideoMarker(it) == Contains(Lower(OrElse(Get(it.body), "")), "data-bbtype=\"video-studio\"")

\* C16: the first matching rule wins: node_type returns a tag of the
\* lowest-numbered rule whose pattern the lower-cased handler id matches,
\* whatever other rules match too; the video-studio marker of the body
\* decides only when no rule matches, and a record matching nothing is
\* Unknown.
C16_FirstMatchWins ==
  calls > 0 =>
    LET h == handler_id(item)
    IN IF MatchingRules(h) # {} THEN typ \in RuleTags(LowestRule(h))
       ELSE IF HasVideoMarker(item) THEN typ = "VideoStudio"
       ELSE typ = "Unknown"

\* the sub-kind the claim gives a MIME family
FamilyKind(fam) ==
  IF fam \in {"jpg", "jpeg", "png", "gif", "webp", "svg", "svg+xml"} THEN "Image"
  ELSE IF fam = "pdf" THEN "PDF"
  ELSE IF fam \in {"mp4", "quicktime", "webm"} THEN "Video"
  ELSE IF fam \in {"mp3", "wav", "mpeg"} THEN "Audio"
  ELSE "FILE"
\* contentHandler.file.mimeType of a record, ABSENT when the handler, the file
\* metadata or the key is missing
FileMime(it) ==
  IF it.contentHandler.kind = "dict" /\ it.contentHandler.file.kind = "dict"
  THEN it.contentHandler.file.mimeType ELSE ABSENT

\* C17: a record classified by the file rule gets the sub-kind of the MIME
\* family of contentHandler.file.mimeType: Image, PDF, Video, Audio for the
\* listed families and File for every other one, the office families
\* included; without file metadata or mimeType it is File, and nothing is
\* raised.
C17_FileSubKind ==
  (calls > 0 /\ MatchingRules(handler_id(item)) # {} /\ LowestRule(handler_id(item)) = 6) =>
    /\ typ # RAISED
    /\ typ = (IF FileMime(item) \in {ABSENT, NULL} THEN "FILE"
              ELSE FamilyKind(mime_family(FileMime(item))))

\* a record with the file handler and the MIME type image/jpeg has been
\* classified Image
C17_Witness ==
  /\ calls > 0 /\ handler_id(item) = "resource/x-bb-file"
  /\ FileMime(item) = "image/jpeg" /\ typ = "Image"

(***************************************************************************)
(* Sibling order against the order of the input list.                      *)
(***************************************************************************)
\* the list its in the order pm: the record at place i is its[pm[i]]
Permuted(its, pm) == [i \in 1..Len(its) |-> its[pm[i]]]
\* the children lists of the permuted list, each child named by its place in its
IndexOfPermuted(its, pm) ==
  LET idx == children_index(Permuted(its, pm))
  IN [k \in DOMAIN idx |-> [i \in 1..Len(idx[k]) |-> pm[idx[k][i]]]]

\* C18: the children lists do not depend on the order of the input list:
\* whatever the order in which the same records (each one an individual, as
\* its unique id makes it) are handed to children_index, every parent key
\* gets the same sequence of children.
C18_OrderIndependent ==
  sort_done =>
    \A pm \in Permutations(1..Len(sort_items)) :
      IndexOfPermuted(sort_items, pm) = by_parent

(***************************************************************************)
(* The tree index after it was built, and the end of the render walk.      *)
(***************************************************************************)
\* index_by_id and children_index have returned for the course in hand, and
\* its processing is not over
Indexed == pc \in {"orphans", "draw", "write_txt", "write_csv", "html", "write_html"}

\* C19: once the tree index of a course is built it is read-only: no later
\* step of processing the course (the orphan handling, draw_tree_txt,
\* build_html, the writing of the files) changes the children list under any
\* parent key, the root key "" included, nor the id-to-record map, nor a
\* field of a record.
C19_IndexReadOnly ==
  [][Indexed => (kids' = kids /\ by_id' = by_id /\ items' = items)]_vars

\* C20: the depth-first render walk from the roots (draw_tree_txt.walk and
\* build_html.render_node) comes to an end for every finite record list,
\* lists with dangling parentIds, with a cycle of parentId links or with a
\* record without an id included: no walk ends in an exception, which would
\* make the processing of the course fail.
C20_WalkEnds ==
  /\ pc = "draw" => draw_tree_txt(items, kids, roots, show_bodies).ok
  /\ pc = "html" => build_html(items, kids, roots, show_bodies).ok

(***************************************************************************)
(* The rows of the text tree: URL, coverage, depth, connectors.            *)
(***************************************************************************)
\* C21: in every row (the CSV row and the text line written with it) the
\* external-link URL is non-empty only if the node's type is Link; the rows of
\* every other type, the merged page rows included, have an empty web_url.
C21_UrlOnlyForLinks ==
  RowsDrawn =>
    \A k \in 1..Len(rows) :
      /\ rows[k].web_url # "" => rows[k].type = "Link"
      /\ rows[k].doc # 0 => rows[k].web_url = ""

\* a merged page, a file whose handler carries a launch URL and an external
\* link have been drawn: only the link's row has a URL
C21_Witness ==
  /\ RowsDrawn
  /\ \E k \in 1..Len(rows) : rows[k].doc # 0
  /\ \E k \in 1..Len(rows) :
       /\ rows[k].type = "PDF" /\ external_link_url(items[rows[k].src]) # "" /\ rows[k].web_url = ""
  /\ \E k \in 1..Len(rows) : rows[k].type = "Link" /\ rows[k].web_url = "https://x.org"

(***************************************************************************)
(* Embedded files: parse_embedded_files_from_body applied to a body        *)
(* written from data-bbfile tags.  A tag is described by its HTML and by   *)
(* what it is: whether its value is a JSON object with a name (keep), and  *)
(* the entry it stands for.                                                *)
(***************************************************************************)
MaxTags == 3

NoEntry == [name |-> "", mime |-> "", render |-> ""]
TagFull ==
  [html |-> "<a data-bbfile=\"{&quot;linkName&quot;:&quot;a.pdf&quot;,&quot;mimeType&quot;:&quot;application/pdf&quot;,&quot;render&quot;:&quot;inline&quot;}\">",
   keep |-> TRUE, entry |-> [name |-> "a.pdf", mime |-> "application/pdf", render |-> "inline"]]
\* no linkName, the alternative text with blanks around it
TagAlt ==
  [html |-> "<img DATA-BBFILE = \"{&quot;alternativeText&quot;:&quot; pic &quot;}\">",
   keep |-> TRUE, entry |-> [name |-> "pic", mime |-> "", render |-> ""]]
\* the object is cut short
TagBadJson ==
  [html |-> "<a data-bbfile=\"{&quot;linkName&quot;:&quot;x.doc&quot;\">", keep |-> FALSE, entry |-> NoEntry]
\* a JSON string, no object
TagNonObject ==
  [html |-> "<a data-bbfile=\"&quot;s.pdf&quot;\">", keep |-> FALSE, entry |-> NoEntry]
\* neither linkName nor alternativeText
TagNoName ==
  [html |-> "<a data-bbfile=\"{&quot;mimeType&quot;:&quot;text/plain&quot;}\">", keep |-> FALSE, entry |-> NoEntry]
\* a character reference that does not exist
TagBadEscape ==
  [html |-> "<a data-bbfile=\"{&quo;linkName&quo;:&quo;y.doc&quo;}\">", keep |-> FALSE, entry |-> NoEntry]
BbfileTags == {TagFull, TagAlt, TagBadJson, TagNonObject, TagNoName, TagBadEscape}

\* the bodies of a tag list: the tags with text between them, and for no tag
\* also the absent and the null body
BodiesOf(ts) ==
  {Join(AnchorSep, [i \in 1..Len(ts) |-> ts[i].html])} \cup (IF ts = <<>> THEN {ABSENT, NULL} ELSE {})

InitEmbed ==
  /\ tags \in SeqsUpTo(BbfileTags, MaxTags)
  /\ embed_body \in BodiesOf(tags)
  /\ embedded = <<>>
  /\ embed_done = FALSE
  /\ anchors = <<>> /\ body_html = "" /\ urls = <<>> /\ inline_done = FALSE
  /\ ClassifyIdle /\ CsvIdle /\ PathIdle /\ SortIdle /\ MainIdle

\* one call of parse_embedded_files_from_body(body)
ParseEmbedded ==
  /\ ~embed_done
  /\ embedded' = parse_embedded_files_from_body(Get(embed_body))
  /\ embed_done' = TRUE
  /\ UNCHANGED <<tags, embed_body, anchors, body_html, urls, inline_done>>
  /\ UNCHANGED <<classifyVars, csvVars, pathVars, sortVars, mainVars>>

NextEmbed == ParseEmbedded
SpecEmbed == InitEmbed /\ [][NextEmbed]_vars

\* C22: parse_embedded_files_from_body recovers match by match: a data-bbfile
\* value that is badly escaped, is no JSON, is no JSON object or has neither
\* linkName nor alternativeText is dropped, every other match yields its entry,
\* in document order; an empty or absent body yields the empty list, and the
\* call always returns.
C22_PerMatchRecovery ==
  embed_done =>
    /\ embedded = Flatten([i \in 1..Len(tags) |-> IF tags[i].keep THEN <<tags[i].entry>> ELSE <<>>])
    /\ ~Truthy(Get(embed_body)) => embedded = <<>>

\* a body with a good tag between two bad ones, then a second good one, has
\* been parsed
C22_Witness ==
  /\ embed_done
  /\ tags = <<TagBadJson, TagAlt, TagFull>>
  /\ embedded = <<TagAlt.entry, TagFull.entry>>

\* the record n parent steps above the i-th record of its, 0 when the chain
\* of parentId links has ended before
RECURSIVE Above(_, _, _)
Above(its, i, n) ==
  IF n = 0 \/ i = 0 THEN i
  ELSE LET ups == {j \in 1..Len(its) : IsStr(its[i].parentId) /\ its[j].id = its[i].parentId}
       IN Above(its, IF ups = {} THEN 0 ELSE CHOOSE j \in ups : TRUE, n - 1)
\* no record lies on a cycle of parentId links or below one
NoParentCycle(its) == \A i \in 1..Len(its) : Above(its, i, Len(its)) = 0
\* the k-th row stands for the i-th record: it has the record's id, or it is
\* the composite row "[pageId,docChildId]" and names the record's id
Represents(k, i) ==
  IF rows[k].doc = 0 THEN rows[k].id = items[i].id
  ELSE /\ rows[k].id = "[" \o items[rows[k].src].id \o "," \o items[rows[k].doc].id \o "]"
       /\ items[i].id \in {items[rows[k].src].id, items[rows[k].doc].id}

\* C23: with the UltraBody toggle on, for every record list with unique
\* non-empty string ids and no parentId cycle, every record is represented in
\* exactly one of the rows draw_tree_txt returns, by a row of its id or by the
\* composite row of a merged pair: none is missing, none is there twice.
C23_ExactlyOnce ==
  (RowsDrawn /\ show_bodies /\ UniqueIds(items) /\ NoParentCycle(items)) =>
    \A i \in 1..Len(items) : Cardinality({k \in 1..Len(rows) : Represents(k, i)}) = 1

\* a page merged with its first document child, its second document child,
\* and a document whose parent is not in the course with a folder below it
\* have been drawn with the toggle on
C23_Witness ==
  /\ RowsDrawn /\ show_bodies /\ UniqueIds(items) /\ NoParentCycle(items)
  /\ Len(items) = 5 /\ Len(rows) = 4
  /\ rows[1].id = "[p,d]" /\ rows[2].id = "e"
  /\ rows[3].id = "u" /\ rows[3].depth = 0 /\ rows[4].id = "v" /\ rows[4].depth = 1

\* the names joined in the path of the k-th row
RowPathNames(k) == Reverse(PathNames(items, by_id, Some(items[rows[k].src]), {}))

\* C24: depth and path agree in every CSV row: for every record list with
\* unique ids and no parentId cycle, the path of a row joins depth + 1 names,
\* in the rows of the children rendered under a merged page node and in the
\* rows of orphans rendered as roots too.
C24_DepthMatchesPath ==
  (RowsDrawn /\ UniqueIds(items) /\ NoParentCycle(items)) =>
    \A k \in 1..Len(rows) :
      /\ rows[k].path = Join(" / ", RowPathNames(k))
      /\ Len(RowPathNames(k)) = rows[k].depth + 1

\* the rows of the root level
RootEntries(out) == {j \in 1..Len(out) : out[j].depth = 0}
\* in the group js of sibling rows the last one, and only it, was drawn as the
\* last (is_last, the corner connector)
LastIsCorner(out, js) == \A j \in js : out[j].is_last <=> (\A i \in js : i <= j)

\* C25: in the text tree, within every group of siblings, the root level
\* included, the last node that is rendered carries the corner connector and
\* every rendered sibling before it the tee connector, for both settings of
\* the UltraBody toggle.
C25_LastConnector ==
  RowsDrawn =>
    /\ LastIsCorner(rows, RootEntries(rows))
    /\ \A k \in 1..Len(rows) : LastIsCorner(rows, ChildEntries(rows, k))
====
